---------------------------- MODULE Spec2Model ----------------------------
(***************************************************************************)
(* Model of the dual-track job orchestration of qc-bc-interactive:         *)
(*   QuantumDeviceManager   (DeviceRegistry)                               *)
(*   AsyncQuantumJobManager (JobStore, table quantum_jobs)                 *)
(*   EnhancedQuantumService (Orchestrator)                                 *)
(*   QuantumSignatureWallSystem / SignatureWallDatabase (entries)          *)
(*   app/main.py            (API handlers)                                 *)
(*                                                                         *)
(* Scheduling.  Every handler of app/main.py is an `async def` run on the  *)
(* one asyncio event loop, so code between two suspension points is one    *)
(* atomic step.  The fast track and the inline slow track never suspend    *)
(* (LocalSimulator.run / task.result are blocking calls), therefore a      *)
(* whole /register request is one action.  The background task suspends    *)
(* in asyncio.sleep, which splits it into the steps BgSubmit and BgExecute.*)
(*                                                                         *)
(* Storage.  All AsyncQuantumJobManager handles are taken to open the same *)
(* quantum_jobs table and all SignatureWallDatabase handles the same       *)
(* signatures table.                                                       *)
(*                                                                         *)
(* Job ids.  create_job builds "qjob_<epoch>_<16 hex digits>" from         *)
(* secrets.token_hex(8); the 64 random bits are modelled as a fresh value  *)
(* (the counter nextJobId).                                                *)
(***************************************************************************)
EXTENDS Integers, Sequences, FiniteSets, TLC

VARIABLES
    jobs,         \* table quantum_jobs: job_id -> row
    nextJobId,    \* source of fresh job ids
    signatures,   \* table signatures: id -> row
    nextSigId,    \* AUTOINCREMENT counter of table signatures
    tasks,        \* background tasks spawned by asyncio.create_task: job_id -> task
    requests,     \* log of the results returned to the callers of /register
    aws_session,  \* EnhancedQuantumService._aws_session is set
    aws_devices,  \* keys of EnhancedQuantumService._aws_devices
    last,         \* the operation that returned last, and what it returned
    _circuit_cache, \* EnhancedQuantumService._circuit_cache: cache_key -> number
    clock,        \* the reading of int(time.time())
    returned,     \* log of the direct calls of _generate_quantum_random_number
    issued,       \* the job ids create_job has returned so far
    locks,        \* AsyncQuantumJobManager.lock of each handle: who is inside
    registry      \* QuantumDeviceManager.devices of each registry: id -> record

vars == <<jobs, nextJobId, signatures, nextSigId, tasks, requests,
          aws_session, aws_devices, last, _circuit_cache, clock, returned,
          issued, locks, registry>>

\* The seeds built by the orchestrator and by the background task contain
\* time.time() and never repeat, so their cache entries are never read again
\* and are left out of _circuit_cache.
CacheUnchanged == UNCHANGED <<_circuit_cache, clock, returned>>

\* no create_job in the step
IssuedUnchanged == UNCHANGED issued

\* The handles on the job database that the process constructs, each with a
\* threading.Lock of its own: job_manager of app/main.py and the job_manager
\* of an EnhancedQuantumService.
Handles == {"job_manager", "quantum_service.job_manager"}

\* The threading.Lock of the SignatureWallDatabase that the wall system keeps
\* as self.database; add_signature, get_all_signatures and
\* clear_all_signatures run inside `with self.lock:`.
EntryLock == "signature_wall_system.database"

\* A transaction that runs with no suspension inside `with self.lock:` is
\* entered and left within one step; such a step leaves every lock free.
LocksUnchanged == UNCHANGED locks

\* no device listing in the step
RegistryUnchanged == UNCHANGED registry

-----------------------------------------------------------------------------
(* Bounds of the model *)

\* number of create_job calls explored in the JobStore specification
MaxStoreJobs == 2

\* number of /register requests explored in the system specification
MaxRequests == 1

-----------------------------------------------------------------------------
(* Values *)

\* SQL NULL / Python None, and a present value
NULL == <<>>
Some(x) == <<x>>

\* datetime.now().isoformat(): the model has one clock reading
Now == "now"

Terminal == {"completed", "failed"}
Active == {"created", "submitted", "running"}
Statuses == Active \cup Terminal

-----------------------------------------------------------------------------
(* JobStore: AsyncQuantumJobManager *)

\* the columns update_job_status accepts as keyword arguments
UpdatableColumns ==
    {"submitted_at", "completed_at", "result_data", "error_message",
     "estimated_completion", "signature_id"}

\* the row inserted by create_job
NewJobRow(device_id, device_arn, user_name, user_message) ==
    [ device_id            |-> device_id,
      device_arn           |-> device_arn,
      user_name            |-> user_name,
      user_message         |-> user_message,
      status               |-> "created",
      submitted_at         |-> NULL,
      completed_at         |-> NULL,
      result_data          |-> NULL,
      error_message        |-> NULL,
      estimated_completion |-> NULL,
      signature_id         |-> NULL ]

\* faulty variant: the random token is the same for every job
NewJobId_FixedToken(next) == 1

\* job_id = f"qjob_{int(time.time())}_{secrets.token_hex(8)}": the id of the
\* next-th job created.  The 64 random bits of the token are taken never to
\* repeat, so the ids are numbered in the order they are handed out.
NewJobId(next) == next

\* faulty variant: the id is returned but the row is not inserted
create_job_NoInsert(table, job_id, device_id, device_arn, user_name, user_message) ==
    table

\* faulty variant: the row is inserted already submitted
create_job_Submitted(table, job_id, device_id, device_arn, user_name, user_message) ==
    table @@ (job_id :>
        [NewJobRow(device_id, device_arn, user_name, user_message)
            EXCEPT !.status = "submitted"])

\* create_job: INSERT INTO quantum_jobs ... status 'created'
create_job(table, job_id, device_id, device_arn, user_name, user_message) ==
    table @@ (job_id :> NewJobRow(device_id, device_arn, user_name, user_message))

\* the SET clause of update_job_status applied to one row: status always,
\* and each keyword argument that names an updatable column
SetClauses(row, status, kwargs) ==
    [ col \in DOMAIN row |->
        IF col = "status" THEN status
        ELSE IF col \in (DOMAIN kwargs) \cap UpdatableColumns THEN kwargs[col]
        ELSE row[col] ]

\* faulty variant: an upsert, a missing row is inserted
update_job_status_Upsert(table, job_id, status, kwargs) ==
    IF job_id \in DOMAIN table
    THEN [table EXCEPT ![job_id] = SetClauses(@, status, kwargs)]
    ELSE table @@ (job_id :>
            SetClauses(NewJobRow("unknown", "unknown", "unknown", "unknown"),
                       status, kwargs))

\* update_job_status: UPDATE quantum_jobs SET ... WHERE job_id = ?
\* (no row matches an unknown id; the status already stored is not looked at)
update_job_status(table, job_id, status, kwargs) ==
    [ id \in DOMAIN table |->
        IF id = job_id THEN SetClauses(table[id], status, kwargs) ELSE table[id] ]

\* get_job / get_job_by_id: SELECT * FROM quantum_jobs WHERE job_id = ?
get_job(table, job_id) ==
    IF job_id \in DOMAIN table THEN Some(table[job_id]) ELSE NULL

\* faulty variant: only the jobs that have ended are deleted
clear_all_jobs_TerminalOnly(table) ==
    [ id \in { j \in DOMAIN table : table[j].status \notin Terminal } |-> table[id] ]

\* clear_all_jobs: DELETE FROM quantum_jobs
clear_all_jobs(table) == [ id \in {} |-> table[id] ]

\* get_active_jobs / get_pending_jobs
get_active_jobs(table) == { id \in DOMAIN table : table[id].status \in Active }

\* SUM(CASE WHEN status IN (...) THEN 1 ELSE 0 END) over quantum_jobs, with
\* `or 0` for the NULL that SUM gives on an empty table
CountStatus(table, wanted) ==
    Cardinality({ id \in DOMAIN table : table[id].status \in wanted })

\* faulty variant: a job that was created and not yet started is not counted as active
get_job_stats_NoCreated(table) ==
    [ active |-> CountStatus(table, {"submitted", "running"}),
      completed |-> CountStatus(table, {"completed"}),
      failed |-> CountStatus(table, {"failed"}),
      avg_duration |-> "N/A" ]

\* get_job_stats (the definition of line 337, which replaces that of line
\* 232); every timestamp is the one clock reading Now, so the average
\* duration of the completed jobs is 0 or NULL and is rendered "N/A"
get_job_stats(table) ==
    [ active |-> CountStatus(table, {"created", "submitted", "running"}),
      completed |-> CountStatus(table, {"completed"}),
      failed |-> CountStatus(table, {"failed"}),
      avg_duration |-> "N/A" ]

-----------------------------------------------------------------------------
(* DeviceRegistry: QuantumDeviceManager *)

DeviceIds ==
    {"local_simulator", "aws_sv1", "ionq_forte", "iqm_garnet",
     "quera_aquila", "rigetti_ankaa3"}

\* QuantumDeviceManager.devices; an arn is kept as the sequence of its parts,
\* so that `'ionq' in arn` is membership of a part
devices ==
    [ local_simulator |->
        [ name |-> "Local Simulator", type |-> "simulator",
          arn |-> <<"local", "simulator">>,
          max_qubits |-> 34, supports_bell_states |-> TRUE,
          async_required |-> FALSE ],
      aws_sv1 |->
        [ name |-> "AWS SV1 Simulator", type |-> "managed_simulator",
          arn |-> <<"arn", "aws", "braket", "device", "quantum-simulator", "amazon", "sv1">>,
          max_qubits |-> 34, supports_bell_states |-> TRUE,
          async_required |-> TRUE ],
      ionq_forte |->
        [ name |-> "IonQ Forte Enterprise", type |-> "qpu",
          arn |-> <<"arn", "aws", "braket", "us-east-1", "device", "qpu", "ionq", "Forte-Enterprise-1">>,
          max_qubits |-> 32, supports_bell_states |-> TRUE,
          async_required |-> TRUE ],
      iqm_garnet |->
        [ name |-> "IQM Garnet", type |-> "qpu",
          arn |-> <<"arn", "aws", "braket", "eu-north-1", "device", "qpu", "iqm", "Emerald">>,
          max_qubits |-> 20, supports_bell_states |-> TRUE,
          async_required |-> TRUE ],
      quera_aquila |->
        [ name |-> "QuEra Aquila", type |-> "qpu",
          arn |-> <<"arn", "aws", "braket", "us-east-1", "device", "qpu", "quera", "Aquila">>,
          max_qubits |-> 256, supports_bell_states |-> FALSE,
          async_required |-> TRUE ],
      rigetti_ankaa3 |->
        [ name |-> "Rigetti Ankaa-3", type |-> "qpu",
          arn |-> <<"arn", "aws", "braket", "us-west-1", "device", "qpu", "rigetti", "Ankaa-3">>,
          max_qubits |-> 84, supports_bell_states |-> TRUE,
          async_required |-> TRUE ] ]

\* faulty variant: an unknown id falls back to the local simulator's record
get_device_info_Default(device_id) ==
    IF device_id \in DOMAIN devices THEN Some(devices[device_id])
    ELSE Some(devices["local_simulator"])

\* get_device_info: self.devices.get(device_id, {}); NULL stands for {}
get_device_info(device_id) ==
    IF device_id \in DOMAIN devices THEN Some(devices[device_id]) ELSE NULL

\* `word in device_info['arn']`
ArnHas(info, word) == \E i \in 1..Len(info.arn) : info.arn[i] = word

\* `word in device_id`, for the words the service tests
IdHas(device_id, word) ==
    \/ word = "quera"   /\ device_id = "quera_aquila"
    \/ word = "ionq"    /\ device_id = "ionq_forte"
    \/ word = "iqm"     /\ device_id = "iqm_garnet"
    \/ word = "rigetti" /\ device_id = "rigetti_ankaa3"
    \/ word = "aws"     /\ device_id = "aws_sv1"

\* _estimate_completion_time: minutes added to the clock reading
EstimateMinutes(info) ==
    IF info.type = "simulator" THEN 0
    ELSE IF info.type = "managed_simulator" THEN 1
    ELSE IF ArnHas(info, "ionq") THEN 15
    ELSE IF ArnHas(info, "iqm") THEN 25
    ELSE IF ArnHas(info, "quera") THEN 35
    ELSE IF ArnHas(info, "rigetti") THEN 10
    ELSE 20

_estimate_completion_time(info) == <<Now, EstimateMinutes(info)>>

-----------------------------------------------------------------------------
(* The registry of the quantum_service package (quantum_service/devices.py) *)

PackageDeviceIds ==
    {"local_simulator", "aws_sv1", "aws_dm1", "aws_tn1", "ionq_aria",
     "ionq_forte", "iqm_garnet", "aqt_ibex_q1", "iqm_emerald", "quera_aquila",
     "rigetti_ankaa3"}

\* type of a record built by _initialize_devices
PackageType(device_id) ==
    IF device_id = "local_simulator" THEN "simulator"
    ELSE IF device_id \in {"aws_sv1", "aws_dm1", "aws_tn1"} THEN "managed_simulator"
    ELSE "qpu"

\* _initialize_devices: of each record the fields type and async_required are
\* kept; the other fields are constants that no operation reads or writes
package_devices ==
    [ device_id \in PackageDeviceIds |->
        [ type |-> PackageType(device_id),
          async_required |-> (device_id # "local_simulator") ] ]

\* The two registries a deployment constructs: the device_manager of
\* enhanced_quantum_service (app/main.py) and the device_manager of the
\* service that get_quantum_service builds for the Lambda handlers.
Registries == {"enhanced_quantum_service", "quantum_service"}

\* the records of a registry when its constructor returns
Constructed(r) ==
    IF r = "enhanced_quantum_service" THEN devices ELSE package_devices

-----------------------------------------------------------------------------
(* Initial state: empty tables, no task, an AWS configuration *)

\* the devices _initialize_aws_session tries to open (arn starts with arn:aws:braket)
AwsIds == DeviceIds \ {"local_simulator"}

\* outcomes of _initialize_aws_session that the model explores: no session
\* and no device, or a session with every device or every device but SV1
AwsConfigs == { {}, AwsIds, AwsIds \ {"aws_sv1"} }

NoLast == [op |-> "init", job_id |-> 0, status |-> ""]

Init ==
    /\ jobs = [ id \in {} |-> NULL ]
    /\ nextJobId = 1
    /\ signatures = [ id \in {} |-> NULL ]
    /\ nextSigId = 1
    /\ tasks = [ id \in {} |-> NULL ]
    /\ requests = <<>>
    /\ aws_session \in BOOLEAN
    /\ aws_devices \in AwsConfigs
    /\ (aws_session <=> aws_devices # {})
    /\ last = NoLast
    /\ _circuit_cache = [ cache_key \in {} |-> 0 ]
    /\ clock = 1762000000
    /\ returned = <<>>
    /\ issued = {}
    /\ locks = [ h \in Handles \cup {EntryLock} |-> NULL ]
    /\ registry = [ r \in Registries |-> Constructed(r) ]

-----------------------------------------------------------------------------
(* The JobStore driven directly through its public methods *)

\* backend id and user name passed to create_job (any string is accepted)
StoreCallers == { <<"ionq_forte", "Alice">>, <<"no_such_device", "Bob">> }

\* keyword arguments passed to update_job_status: none, and the recognised
\* result columns together with a column the method does not accept
StoreKwargs ==
    { [ x \in {} |-> NULL ],
      [ completed_at |-> Some(Now), result_data |-> Some([quantum_number |-> 7]),
        error_message |-> Some(<<"boom">>), created_at |-> Some(Now) ] }

\* the ids a caller may pass: every id handed out so far and one never handed out
StoreIds == 1..(MaxStoreJobs + 1)

StoreUnchanged ==
    UNCHANGED <<signatures, nextSigId, tasks, requests, aws_session, aws_devices,
                _circuit_cache, clock, returned, locks, registry>>

StoreCreate(device_id, user_name) ==
    /\ nextJobId <= MaxStoreJobs
    /\ jobs' = create_job(jobs, NewJobId(nextJobId), device_id, <<device_id>>,
                          user_name, "Hello")
    /\ nextJobId' = nextJobId + 1
    /\ issued' = issued \cup {NewJobId(nextJobId)}
    /\ last' = [op |-> "create_job", job_id |-> NewJobId(nextJobId), status |-> ""]
    /\ StoreUnchanged

StoreUpdate(job_id, status, kwargs) ==
    /\ jobs' = update_job_status(jobs, job_id, status, kwargs)
    /\ last' = [op |-> "update_job_status", job_id |-> job_id, status |-> ""]
    /\ UNCHANGED <<nextJobId, issued>>
    /\ StoreUnchanged

StoreGet(job_id) ==
    /\ last' = [op |-> "get_job", job_id |-> job_id,
                status |-> IF get_job(jobs, job_id) = NULL THEN "not_found"
                           ELSE get_job(jobs, job_id)[1].status]
    /\ UNCHANGED <<jobs, nextJobId, issued>>
    /\ StoreUnchanged

StoreClear ==
    /\ jobs' = clear_all_jobs(jobs)
    /\ last' = [op |-> "clear_all_jobs", job_id |-> Cardinality(DOMAIN jobs), status |-> ""]
    /\ UNCHANGED <<nextJobId, issued>>
    /\ StoreUnchanged

StoreNext ==
    \/ \E c \in StoreCallers : StoreCreate(c[1], c[2])
    \/ \E id \in StoreIds, st \in Statuses, kw \in StoreKwargs : StoreUpdate(id, st, kw)
    \/ \E id \in StoreIds : StoreGet(id)
    \/ StoreClear

\* the JobStore needs no AWS session
InitStore == Init /\ ~aws_session

SpecStore == InitStore /\ [][StoreNext]_vars

-----------------------------------------------------------------------------
(* Orchestrator: EnhancedQuantumService *)

\* Bell-state probabilities in percent: the ideal [0.5, 0.0, 0.0, 0.5] and a
\* measured distribution
Ideal == <<50, 0, 0, 50>>
Measured == <<48, 2, 1, 49>>

\* what one run of the two circuits can give: the random number and the
\* measured probabilities
Outcomes ==
    { [quantum_number |-> 0, entanglement_data |-> Ideal],
      [quantum_number |-> 5, entanglement_data |-> Measured] }

\* the backend ids a caller may select
Selectable == DeviceIds \cup {"no_such_device"}

Names == {"Alice"}

\* where an exception is raised during a /register request: nowhere, in the
\* fast track, in the inline slow track, or in register_signature after
\* process_quantum_signature has returned
FailPoints == {"none", "fast", "slow", "entry"}

NoKwargs == [ x \in {} |-> NULL ]

\* str(e) of a caught exception
ExceptionText == <<"exception">>

\* the dict built as local_result / device_result / result
ResultData(out, info) ==
    [ quantum_number    |-> out.quantum_number,
      entanglement_data |-> out.entanglement_data,
      device_name       |-> info.name,
      device_type       |-> info.type ]

\* faulty variant: the result is stored and the status is left as it was
complete_job_KeepStatus(table, job_id, result) ==
    [ id \in DOMAIN table |->
        IF id = job_id
        THEN [ table[id] EXCEPT !.completed_at = Some(Now),
                                !.result_data = Some(result) ]
        ELSE table[id] ]

\* faulty variant: the completion writes no completed_at
complete_job_NoTimestamp(table, job_id, result) ==
    update_job_status(table, job_id, "completed",
        [ result_data |-> Some(result) ])

\* a job run to completion: update_job_status(id, 'completed',
\* completed_at=..., result_data=json.dumps(result))
complete_job(table, job_id, result) ==
    update_job_status(table, job_id, "completed",
        [ completed_at |-> Some(Now), result_data |-> Some(result) ])

\* the except branch of a background task: update_job_status(id, 'failed',
\* completed_at=..., error_message=str(e))
fail_job(table, job_id, text) ==
    update_job_status(table, job_id, "failed",
        [ completed_at |-> Some(Now), error_message |-> Some(text) ])

\* faulty variant: the failure carries no error message
Failure_NoError(text) ==
    [ success |-> FALSE, error |-> NULL, dual_mode |-> FALSE,
      quantum_number |-> NULL, entanglement_data |-> NULL,
      local_job_id |-> NULL, device_job_id |-> NULL,
      local_result |-> NULL, device_result |-> NULL ]

\* the dict returned by process_quantum_signature; a key that is absent from
\* the dict is NULL here
Failure(text) ==
    [ success |-> FALSE, error |-> Some(text), dual_mode |-> FALSE,
      quantum_number |-> NULL, entanglement_data |-> NULL,
      local_job_id |-> NULL, device_job_id |-> NULL,
      local_result |-> NULL, device_result |-> NULL ]

\* faulty variant: the local job id is returned for both tracks
Success_SameJob(local_result, local_job_id, device_job_id, device_result) ==
    [ success |-> TRUE, error |-> NULL, dual_mode |-> TRUE,
      quantum_number |-> Some(local_result.quantum_number),
      entanglement_data |-> Some(local_result.entanglement_data),
      local_job_id |-> Some(local_job_id), device_job_id |-> Some(local_job_id),
      local_result |-> Some(local_result), device_result |-> device_result ]

\* the dict of a successful call (dual_mode)
Success(local_result, local_job_id, device_job_id, device_result) ==
    [ success |-> TRUE, error |-> NULL, dual_mode |-> TRUE,
      quantum_number |-> Some(local_result.quantum_number),
      entanglement_data |-> Some(local_result.entanglement_data),
      local_job_id |-> Some(local_job_id), device_job_id |-> Some(device_job_id),
      local_result |-> Some(local_result), device_result |-> device_result ]

\* faulty variant: the selected device is always processed inline
RunsInBackground_Never(info) == FALSE

\* `if device_info.get('async_required', False)`: the slow track is spawned
\* as a task instead of being run inline
RunsInBackground(info) == info.async_required

\* faulty variant: the inline slow track leaves its job running
inline_slow_track_NoCompletion(table, job_id, result) ==
    update_job_status(table, job_id, "running", NoKwargs)

\* the inline slow track when nothing raises: 'running', then 'completed'
inline_slow_track(table, job_id, result) ==
    complete_job(update_job_status(table, job_id, "running", NoKwargs),
                 job_id, result)

\* process_quantum_signature.  The value is the effect of the call: the job
\* table after it, the number of job ids consumed, the job id of the spawned
\* task (NULL when none is spawned) and the dict returned.
process_quantum_signature(table, next, name, quantum_device, fast, slow, fail) ==
    LET device_info == get_device_info(quantum_device) IN
    IF device_info = NULL
    THEN [ jobs |-> table, used |-> 0, spawned |-> NULL,
           result |-> Failure(<<"Unknown quantum device", quantum_device>>) ]
    ELSE
    LET info == device_info[1]
        local_job_id == NewJobId(next)
        device_job_id == NewJobId(next + 1)
        t1 == create_job(table, local_job_id, "local_simulator",
                         <<"local", "simulator">>, name, <<"Hello", "_local">>)
        t2 == create_job(t1, device_job_id, quantum_device, info.arn,
                         name, <<"Hello", "_device">>)
        t3 == update_job_status(t2, local_job_id, "running", NoKwargs)
        local_result == ResultData(fast, devices["local_simulator"])
        t4 == complete_job(t3, local_job_id, local_result)
        device_result == ResultData(slow, info)
    IN  IF fail = "fast"
        THEN [ jobs |-> t3, used |-> 2, spawned |-> NULL,
               result |-> Failure(ExceptionText) ]
        ELSE IF RunsInBackground(info)
        THEN [ jobs |-> t4, used |-> 2, spawned |-> Some(device_job_id),
               result |-> Success(local_result, local_job_id, device_job_id, NULL) ]
        ELSE IF fail = "slow"
        THEN [ jobs |-> update_job_status(t4, device_job_id, "running", NoKwargs),
               used |-> 2, spawned |-> NULL,
               result |-> Failure(ExceptionText) ]
        ELSE [ jobs |-> inline_slow_track(t4, device_job_id, device_result),
               used |-> 2, spawned |-> NULL,
               result |-> Success(local_result, local_job_id, device_job_id,
                                  Some(device_result)) ]

-----------------------------------------------------------------------------
(* Entries: QuantumSignatureWallSystem and SignatureWallDatabase *)

\* Python `a or b` on optional numbers: None and 0 are false
PyOrNumber(a, b) == IF a # NULL /\ a[1] # 0 THEN a ELSE b

\* Python `a or b` on optional lists: None and [] are false
PyOrList(a, b) == IF a # NULL /\ Len(a[1]) > 0 THEN a ELSE b

\* dict.get(key) on an optional dict
Get(optdict, key) == IF optdict = NULL THEN NULL ELSE Some(optdict[1][key])

\* QuantumResistantCrypto.sign_message over "name|response|number|device"
DeviceSignature(name, number) == <<name, "Hello", number, "device">>

\* the row register_signature hands to add_signature.  The INSERT statement
\* of add_signature has no device_signature column, so that column is NULL.
SignatureRow(name, quantum_device, quantum_result) ==
    LET local_result == quantum_result.local_result
        device_result == quantum_result.device_result
        local_quantum_number ==
            PyOrNumber(Get(local_result, "quantum_number"),
                 IF quantum_result.quantum_number = NULL THEN Some(0)
                 ELSE quantum_result.quantum_number)
        local_entanglement_data ==
            PyOrList(Get(local_result, "entanglement_data"),
                 IF quantum_result.entanglement_data = NULL THEN Some(Ideal)
                 ELSE quantum_result.entanglement_data)
    IN  [ name                     |-> name,
          quantum_number           |-> local_quantum_number[1],
          entanglement_data        |-> local_entanglement_data[1],
          device_id                |-> quantum_device,
          local_job_id             |-> quantum_result.local_job_id,
          device_job_id            |-> quantum_result.device_job_id,
          device_quantum_number    |-> Get(device_result, "quantum_number"),
          device_entanglement_data |->
              PyOrList(Get(device_result, "entanglement_data"), NULL),
          device_signature         |-> NULL ]

\* faulty variant: the device results replace the primary value as well
SetDeviceResults_Overwrite(row, quantum_number, entanglement_data, signature) ==
    [ row EXCEPT !.quantum_number = quantum_number,
                 !.entanglement_data = entanglement_data,
                 !.device_quantum_number = Some(quantum_number),
                 !.device_entanglement_data = Some(entanglement_data),
                 !.device_signature = signature ]

\* UPDATE signatures SET device_quantum_number = ?, device_entanglement_data
\* = ?, device_signature = ? ...; `signature` is NULL where the statement
\* does not set the column, then the stored one is kept
SetDeviceResults(row, quantum_number, entanglement_data, signature) ==
    [ row EXCEPT !.device_quantum_number = Some(quantum_number),
                 !.device_entanglement_data = Some(entanglement_data),
                 !.device_signature = IF signature = NULL THEN @ ELSE signature ]

\* _update_signature_with_device_results: ... WHERE device_job_id = ?
_update_signature_with_device_results(table, device_job_id, quantum_number, entanglement_data) ==
    [ id \in DOMAIN table |->
        IF table[id].device_job_id = Some(device_job_id)
        THEN SetDeviceResults(table[id], quantum_number, entanglement_data,
                Some(DeviceSignature(table[id].name, quantum_number)))
        ELSE table[id] ]

\* the rows the loop of update_device_results changes: a device job is
\* referenced, no device number is stored, and the job is completed with a
\* result
NeedsDeviceResults(row, jobtable) ==
    /\ row.device_job_id # NULL
    /\ row.device_quantum_number = NULL
    /\ get_job(jobtable, row.device_job_id[1]) # NULL
    /\ get_job(jobtable, row.device_job_id[1])[1].status = "completed"
    /\ get_job(jobtable, row.device_job_id[1])[1].result_data # NULL

\* update_device_results (POST /admin/update-device-results)
update_device_results(table, jobtable) ==
    [ id \in DOMAIN table |->
        IF NeedsDeviceResults(table[id], jobtable)
        THEN LET result_data == jobtable[table[id].device_job_id[1]].result_data[1]
             IN  SetDeviceResults(table[id], result_data.quantum_number,
                                  result_data.entanglement_data, NULL)
        ELSE table[id] ]

\* the checks of upgrade_signature_with_device_results that precede the
\* UPDATE statement
CanUpgrade(table, jobtable, signature_id) ==
    /\ signature_id \in DOMAIN table
    /\ table[signature_id].device_job_id # NULL
    /\ get_job(jobtable, table[signature_id].device_job_id[1]) # NULL
    /\ get_job(jobtable, table[signature_id].device_job_id[1])[1].status = "completed"
    /\ get_job(jobtable, table[signature_id].device_job_id[1])[1].result_data # NULL

\* faulty variant: an entry whose job is not completed is upgraded from its
\* own fast-track values
upgrade_signature_with_device_results_Eager(table, jobtable, signature_id) ==
    IF signature_id \in DOMAIN table /\ table[signature_id].device_job_id # NULL
    THEN LET source ==
                 IF CanUpgrade(table, jobtable, signature_id)
                 THEN jobtable[table[signature_id].device_job_id[1]].result_data[1]
                 ELSE table[signature_id]
         IN  [ table EXCEPT ![signature_id] =
                 SetDeviceResults(@, source.quantum_number,
                     source.entanglement_data,
                     Some(DeviceSignature(@.name, source.quantum_number))) ]
    ELSE table

\* upgrade_signature_with_device_results: ... WHERE id = ?
upgrade_signature_with_device_results(table, jobtable, signature_id) ==
    IF CanUpgrade(table, jobtable, signature_id)
    THEN LET result_data ==
                 jobtable[table[signature_id].device_job_id[1]].result_data[1]
         IN  [ table EXCEPT ![signature_id] =
                 SetDeviceResults(@, result_data.quantum_number,
                     result_data.entanglement_data,
                     Some(DeviceSignature(@.name, result_data.quantum_number))) ]
    ELSE table

\* faulty variant: the entries are kept
clear_all_signatures_Keep(table) == table

\* clear_all_signatures: DELETE FROM signatures
clear_all_signatures(table) == [ id \in {} |-> table[id] ]

-----------------------------------------------------------------------------
(* The background task: _process_quantum_job_for_signature *)

\* _check_device_availability; `coin` is the draw of random.choice.  The
\* table of draws has the key 'rigetti_ankaa', which is no device id.
_check_device_availability(device_id, coin) ==
    IF device_id = "local_simulator" THEN TRUE
    ELSE IF ~aws_session \/ device_id \notin aws_devices THEN FALSE
    ELSE IF devices[device_id].type \in {"simulator", "managed_simulator"} THEN TRUE
    ELSE IF device_id \in {"ionq_forte", "iqm_garnet", "quera_aquila", "rigetti_ankaa"}
         THEN coin
    ELSE TRUE

\* faulty variant: an unavailable device is never replaced by the SV1 simulator
ExecPath_NoFallback(device_id, coin, expired) ==
    IF device_id = "local_simulator" THEN "local"
    ELSE IF device_id \in aws_devices /\ aws_session
    THEN IF ~_check_device_availability(device_id, coin)
         THEN "unavailable"
         ELSE IF devices[device_id].async_required /\ expired
         THEN "timeout"
         ELSE "device"
    ELSE "local_fallback"

\* The branch _execute_on_device (and _execute_bell_state_on_device, which
\* has the same structure) takes.  "unavailable" and "timeout" are the two
\* exceptions the function raises itself.
ExecPath(device_id, coin, expired) ==
    IF device_id = "local_simulator" THEN "local"
    ELSE IF device_id \in aws_devices /\ aws_session
    THEN IF ~_check_device_availability(device_id, coin) /\ "aws_sv1" \notin aws_devices
         THEN "unavailable"
         ELSE IF devices[device_id].async_required /\ expired
         THEN "timeout"
         ELSE IF ~_check_device_availability(device_id, coin)
         THEN "fallback_sv1"
         ELSE "device"
    ELSE "local_fallback"

\* the paths on which the function raised an exception
Raised == {"unavailable", "timeout"}

\* _execute_on_device: the exceptions raised in its try block are caught by
\* its own handler, which returns a number derived from a hash of the
\* circuit; on every path the caller gets a number
_execute_on_device(path, measured) == measured.quantum_number

\* _execute_bell_state_on_device: its handler returns the ideal distribution
_execute_bell_state_on_device(path, measured) ==
    IF path \in Raised THEN Ideal ELSE measured.entanglement_data

\* _generate_quantum_random_number on a cache miss: the AHS program for
\* QuEra (no availability check), the circuit for every other device
NumberPath(device_id, coin, expired) ==
    IF IdHas(device_id, "quera") THEN "ahs" ELSE ExecPath(device_id, coin, expired)

\* _create_bell_state_circuit: no execution for a device without Bell states
BellPath(device_id, coin, expired) ==
    IF ~devices[device_id].supports_bell_states THEN "unsupported"
    ELSE ExecPath(device_id, coin, expired)

_create_bell_state_circuit(device_id, path, measured) ==
    IF ~devices[device_id].supports_bell_states THEN Ideal
    ELSE _execute_bell_state_on_device(path, measured)

\* the task created by asyncio.create_task, before its first step
NewTask(device_id, name) ==
    [ device_id |-> device_id, name |-> name, pc |-> "spawned",
      unavailable_no_fallback |-> FALSE, used_fallback |-> FALSE,
      timed_out |-> FALSE, raised |-> FALSE ]

\* faulty variant: _simulate_quantum_processing does not mark 'running'
bg_submit_NoRunning(table, job_id, device_id) ==
    update_job_status(table, job_id, "submitted",
        [ submitted_at |-> Some(Now),
          estimated_completion |->
              Some(_estimate_completion_time(devices[device_id])) ])

\* the task up to its first suspension: 'submitted' with the estimate, then
\* _simulate_quantum_processing marks 'running' and sleeps
bg_submit(table, job_id, device_id) ==
    update_job_status(
        update_job_status(table, job_id, "submitted",
            [ submitted_at |-> Some(Now),
              estimated_completion |->
                  Some(_estimate_completion_time(devices[device_id])) ]),
        job_id, "running", NoKwargs)

\* faulty variant: the handler of the task logs the exception only
bg_except_LogOnly(table, job_id, text) == table

\* the `except Exception` handler of the task
bg_except(table, job_id, text) == fail_job(table, job_id, text)

-----------------------------------------------------------------------------
(* The system: the handlers of app/main.py and the background tasks *)

\* add_signature: INSERT INTO signatures; the id is the AUTOINCREMENT value
add_signature(table, id, row) == table @@ (id :> row)

AwsUnchanged == UNCHANGED <<aws_session, aws_devices>>

\* the dict register_signature returns: the failure of
\* process_quantum_signature as it is, the failure built by its own except
\* handler, or the success dict with the id of the stored entry
RegisterResult(quantum_result, fail, signature_id) ==
    IF ~quantum_result.success
    THEN [ success |-> FALSE, error |-> quantum_result.error, signature_id |-> NULL ]
    ELSE IF fail = "entry"
    THEN [ success |-> FALSE, error |-> Some(ExceptionText), signature_id |-> NULL ]
    ELSE [ success |-> TRUE, error |-> NULL, signature_id |-> Some(signature_id) ]

\* POST /register: register_signature, which awaits
\* process_quantum_signature and then stores the entry.  Nothing in it
\* suspends, so the request is one step.  `limit` bounds the requests.
RegisterSignature(limit, name, quantum_device, fast, slow, fail) ==
    /\ Len(requests) < limit
    /\ LET eff == process_quantum_signature(jobs, nextJobId, name,
                                            quantum_device, fast, slow, fail)
           stored == eff.result.success /\ fail # "entry"
       IN  /\ jobs' = eff.jobs
           /\ nextJobId' = nextJobId + eff.used
           /\ issued' = issued \cup { NewJobId(nextJobId + k) : k \in 0..(eff.used - 1) }
           /\ tasks' = IF eff.spawned = NULL THEN tasks
                       ELSE tasks @@ (eff.spawned[1] :> NewTask(quantum_device, name))
           /\ signatures' =
                 IF stored
                 THEN add_signature(signatures, nextSigId,
                                    SignatureRow(name, quantum_device, eff.result))
                 ELSE signatures
           /\ nextSigId' = IF stored THEN nextSigId + 1 ELSE nextSigId
           /\ requests' = Append(requests,
                 [ quantum_device |-> quantum_device,
                   quantum_result |-> eff.result,
                   registered     |-> stored,
                   fail           |-> fail,
                   response       |-> RegisterResult(eff.result, fail, nextSigId) ])
    /\ last' = NoLast
    /\ AwsUnchanged
    /\ CacheUnchanged
    /\ LocksUnchanged
    /\ RegistryUnchanged

\* first step of a background task, up to its asyncio.sleep
BgSubmit(job_id) ==
    /\ job_id \in DOMAIN tasks
    /\ tasks[job_id].pc = "spawned"
    /\ jobs' = bg_submit(jobs, job_id, tasks[job_id].device_id)
    /\ tasks' = [tasks EXCEPT ![job_id].pc = "sleeping"]
    /\ last' = NoLast
    /\ UNCHANGED <<nextJobId, signatures, nextSigId, requests>>
    /\ AwsUnchanged
    /\ CacheUnchanged
    /\ IssuedUnchanged
    /\ LocksUnchanged
    /\ RegistryUnchanged

\* rest of a background task: the two circuits are executed, the job is
\* marked 'completed' and the entry gets the device results; an exception
\* raised while the entry is updated (entryRaises) is logged and dropped.
\* The suspensions inside the executions are not steps of their own: between
\* them the task touches neither table.
BgExecute(job_id, coinNumber, coinBell, expired, entryRaises, measured) ==
    /\ job_id \in DOMAIN tasks
    /\ tasks[job_id].pc = "sleeping"
    /\ LET device_id == tasks[job_id].device_id
           numberPath == NumberPath(device_id, coinNumber, expired)
           bellPath == BellPath(device_id, coinBell, expired)
           quantum_number == _execute_on_device(numberPath, measured)
           entanglement_data == _create_bell_state_circuit(device_id, bellPath, measured)
           result == ResultData([ quantum_number |-> quantum_number,
                                  entanglement_data |-> entanglement_data ],
                                devices[device_id])
           onAws == device_id \in aws_devices /\ aws_session
           fellBack ==
               \/ /\ numberPath \in {"fallback_sv1", "timeout"}
                  /\ ~_check_device_availability(device_id, coinNumber)
               \/ /\ bellPath \in {"fallback_sv1", "timeout"}
                  /\ ~_check_device_availability(device_id, coinBell)
       IN  /\ tasks' = [tasks EXCEPT ![job_id] =
                 [ @ EXCEPT !.pc = "done",
                            !.unavailable_no_fallback =
                                "unavailable" \in {numberPath, bellPath},
                            !.used_fallback = onAws /\ fellBack,
                            !.timed_out = "timeout" \in {numberPath, bellPath} ]]
           /\ jobs' = complete_job(jobs, job_id, result)
           /\ signatures' =
                 IF entryRaises THEN signatures
                 ELSE _update_signature_with_device_results(
                         signatures, job_id, quantum_number, entanglement_data)
    /\ last' = NoLast
    /\ UNCHANGED <<nextJobId, nextSigId, requests>>
    /\ AwsUnchanged
    /\ CacheUnchanged
    /\ IssuedUnchanged
    /\ LocksUnchanged
    /\ RegistryUnchanged

\* rest of a background task in which an exception that no inner handler
\* catches is raised: the task's handler marks the job 'failed'
BgRaise(job_id) ==
    /\ job_id \in DOMAIN tasks
    /\ tasks[job_id].pc = "sleeping"
    /\ tasks' = [tasks EXCEPT ![job_id] = [ @ EXCEPT !.pc = "done", !.raised = TRUE ]]
    /\ jobs' = bg_except(jobs, job_id, ExceptionText)
    /\ last' = NoLast
    /\ UNCHANGED <<nextJobId, signatures, nextSigId, requests>>
    /\ AwsUnchanged
    /\ CacheUnchanged
    /\ IssuedUnchanged
    /\ LocksUnchanged
    /\ RegistryUnchanged

\* POST /admin/update-device-results
UpdateDeviceResults ==
    /\ signatures' = update_device_results(signatures, jobs)
    /\ last' = NoLast
    /\ UNCHANGED <<jobs, nextJobId, nextSigId, tasks, requests>>
    /\ AwsUnchanged
    /\ CacheUnchanged
    /\ IssuedUnchanged
    /\ LocksUnchanged
    /\ RegistryUnchanged

\* POST /admin/upgrade-signature/{signature_id}
UpgradeSignature(signature_id) ==
    /\ signatures' = upgrade_signature_with_device_results(signatures, jobs, signature_id)
    /\ last' = NoLast
    /\ UNCHANGED <<jobs, nextJobId, nextSigId, tasks, requests>>
    /\ AwsUnchanged
    /\ CacheUnchanged
    /\ IssuedUnchanged
    /\ LocksUnchanged
    /\ RegistryUnchanged

\* POST /admin/clear: clear_all_signatures, then clear_all_jobs, with no
\* suspension in between
ClearAllData ==
    /\ signatures' = clear_all_signatures(signatures)
    /\ jobs' = clear_all_jobs(jobs)
    /\ last' = NoLast
    /\ UNCHANGED <<nextJobId, nextSigId, tasks, requests>>
    /\ AwsUnchanged
    /\ CacheUnchanged
    /\ IssuedUnchanged
    /\ LocksUnchanged
    /\ RegistryUnchanged

\* GET /job-status/{job_id}
GetJobStatus(job_id) ==
    /\ last' = [ op |-> "get_job_status", job_id |-> job_id,
                 status |-> IF get_job(jobs, job_id) = NULL THEN "not_found"
                            ELSE get_job(jobs, job_id)[1].status ]
    /\ UNCHANGED <<jobs, nextJobId, signatures, nextSigId, tasks, requests>>
    /\ AwsUnchanged
    /\ CacheUnchanged
    /\ IssuedUnchanged
    /\ LocksUnchanged
    /\ RegistryUnchanged

\* the circuit outcomes of the inline slow track, which runs for a
\* synchronous backend only
SlowOutcomes(quantum_device) ==
    IF quantum_device \in DeviceIds /\ ~RunsInBackground(devices[quantum_device])
    THEN Outcomes
    ELSE { CHOOSE out \in Outcomes : TRUE }

\* the places where a request for quantum_device can raise: none before the
\* lookup of an unknown backend fails, and none in the slow track when it
\* runs in the background
FailPointsOf(quantum_device) ==
    IF quantum_device \notin DeviceIds THEN {"none"}
    ELSE IF RunsInBackground(devices[quantum_device]) THEN FailPoints \ {"slow"}
    ELSE FailPoints

\* a /register request with any name, selectable backend, circuit outcomes
\* and failure point
Register(limit, selectable) ==
    \E name \in Names, quantum_device \in selectable, fast \in Outcomes :
        \E slow \in SlowOutcomes(quantum_device),
           fail \in FailPointsOf(quantum_device) :
            RegisterSignature(limit, name, quantum_device, fast, slow, fail)

\* the last step of a task with any draws of the availability check, wait
\* budget, exception in the entry update and circuit outcomes
Execute(job_id) ==
    \E coinNumber \in BOOLEAN, coinBell \in BOOLEAN, expired \in BOOLEAN,
       entryRaises \in BOOLEAN, measured \in Outcomes :
        BgExecute(job_id, coinNumber, coinBell, expired, entryRaises, measured)

Next ==
    \/ Register(MaxRequests, Selectable)
    \/ \E job_id \in DOMAIN tasks : BgSubmit(job_id)
    \/ \E job_id \in DOMAIN tasks : Execute(job_id)
    \/ \E job_id \in DOMAIN tasks : BgRaise(job_id)
    \/ UpdateDeviceResults
    \/ \E signature_id \in 1..nextSigId : UpgradeSignature(signature_id)
    \/ ClearAllData

Spec == Init /\ [][Next]_vars

-----------------------------------------------------------------------------
(* The system with a polling client, under the scheduling of the event loop *)

\* number of /register requests explored with the polling client
MaxLiveRequests == 1

\* the backends selected in these requests: the synchronous one, a managed
\* simulator and a QPU
LiveSelectable == {"local_simulator", "ionq_forte"}

\* the ids these requests can give to slow-track jobs: every request
\* creates the fast-track job first and the slow-track job second
LiveJobIds == { 2 * k : k \in 1..MaxLiveRequests }

\* the client polls the device job id it was given in the response
Poll(job_id) ==
    /\ job_id \in DOMAIN tasks
    /\ GetJobStatus(job_id)

NextLive ==
    \/ Register(MaxLiveRequests, LiveSelectable)
    \/ \E job_id \in DOMAIN tasks : BgSubmit(job_id)
    \/ \E job_id \in DOMAIN tasks : Execute(job_id)
    \/ \E job_id \in DOMAIN tasks : BgRaise(job_id)
    \/ \E job_id \in LiveJobIds : Poll(job_id)
    \/ ClearAllData

\* a step of some background task
TaskStep ==
    \E job_id \in LiveJobIds :
        BgSubmit(job_id) \/ Execute(job_id) \/ BgRaise(job_id)

\* The event loop runs a task that is ready: a spawned task gets its first
\* step, and a sleeping task is woken when its sleep ends (the wait loop is
\* bounded by max_wait_time).  The client keeps polling the jobs it was
\* given.
Fairness ==
    /\ WF_vars(TaskStep)
    /\ WF_vars(\E job_id \in LiveJobIds : Poll(job_id))

SpecLive == Init /\ [][NextLive]_vars /\ Fairness

-----------------------------------------------------------------------------
(* Claims about the JobStore, checked under SpecStore *)

\* C1: when create_job has just returned a job id, get_job of that id returns
\* a row (not None) whose status is 'created', whatever the backend id and
\* the metadata were.
C1_CreatedAfterCreate ==
    last.op = "create_job" =>
        /\ get_job(jobs, last.job_id) # NULL
        /\ get_job(jobs, last.job_id)[1].status = "created"

\* create_job has returned for a backend id the registry does not know
C1_Witness ==
    /\ last.op = "create_job"
    /\ last.job_id \in DOMAIN jobs
    /\ jobs[last.job_id].device_id = "no_such_device"
    /\ jobs[last.job_id].user_name = "Bob"

\* C2 (as claimed): an update_job_status call for a job whose status is
\* 'completed' or 'failed' leaves its status, result payload and error
\* message unchanged.
C2_TerminalIsFinal ==
    [][ \A id \in DOMAIN jobs :
          ( /\ jobs[id].status \in Terminal
            /\ last'.op = "update_job_status"
            /\ last'.job_id = id )
          => /\ id \in DOMAIN jobs'
             /\ jobs'[id].status = jobs[id].status
             /\ jobs'[id].result_data = jobs[id].result_data
             /\ jobs'[id].error_message = jobs[id].error_message ]_vars

\* C3: an update_job_status call with a job id that is not in the table
\* creates no row and leaves every stored job as it was (the call returns
\* normally: the UPDATE statement matches no row).
C3_UnknownIdNoOp ==
    [][ ( /\ last'.op = "update_job_status"
          /\ last'.job_id \notin DOMAIN jobs )
        => jobs' = jobs ]_vars

\* update_job_status has returned for an id that is not stored, next to a
\* job that is stored
C3_Witness ==
    /\ last.op = "update_job_status"
    /\ last.job_id \notin DOMAIN jobs
    /\ DOMAIN jobs # {}

-----------------------------------------------------------------------------
(* Claims about the Orchestrator, checked under Spec *)

\* a /register request returns in this step
Returns == Len(requests') = Len(requests) + 1

\* the request that returned last
LastRequest == requests[Len(requests)]

\* the selected backend is registered and must run asynchronously
IsAsync(quantum_device) ==
    quantum_device \in DeviceIds /\ devices[quantum_device].async_required

\* the selected backend is registered and synchronous
IsSync(quantum_device) ==
    quantum_device \in DeviceIds /\ ~devices[quantum_device].async_required

\* C4: when process_quantum_signature returns success for a backend with
\* async_required, the result carries the fast-track value and vector (those
\* stored as the result of the fast-track job), a slow-track job id that is
\* not None, differs from the fast-track job id and names a stored job, and
\* no slow-track result.
C4_AsyncResultShape ==
    [][ ( /\ Returns
          /\ requests'[Len(requests')].quantum_result.success
          /\ IsAsync(requests'[Len(requests')].quantum_device) )
        => LET r == requests'[Len(requests')].quantum_result IN
           /\ r.quantum_number # NULL
           /\ r.entanglement_data # NULL
           /\ r.local_job_id # NULL
           /\ r.local_job_id[1] \in DOMAIN jobs'
           /\ jobs'[r.local_job_id[1]].result_data # NULL
           /\ r.quantum_number[1] =
                 jobs'[r.local_job_id[1]].result_data[1].quantum_number
           /\ r.entanglement_data[1] =
                 jobs'[r.local_job_id[1]].result_data[1].entanglement_data
           /\ r.device_job_id # NULL
           /\ r.device_job_id # r.local_job_id
           /\ r.device_job_id[1] \in DOMAIN jobs'
           /\ jobs'[r.device_job_id[1]].device_id =
                 requests'[Len(requests')].quantum_device
           /\ r.device_result = NULL ]_vars

\* a request for the IonQ device has returned success with a pending job
C4_Witness ==
    /\ requests # <<>>
    /\ LastRequest.quantum_device = "ionq_forte"
    /\ LastRequest.quantum_result.success
    /\ LastRequest.quantum_result.device_job_id # NULL
    /\ LastRequest.quantum_result.device_job_id[1] \in DOMAIN jobs
    /\ LastRequest.quantum_result.quantum_number = Some(5)

\* C6: when process_quantum_signature returns success for a backend without
\* async_required, the result holds the fast-track and the slow-track values,
\* both jobs it names are 'completed' or 'failed' at that moment, and no
\* background task has been spawned.
C6_SyncResultComplete ==
    [][ ( /\ Returns
          /\ requests'[Len(requests')].quantum_result.success
          /\ IsSync(requests'[Len(requests')].quantum_device) )
        => LET r == requests'[Len(requests')].quantum_result IN
           /\ r.quantum_number # NULL
           /\ r.entanglement_data # NULL
           /\ r.device_result # NULL
           /\ r.local_job_id # NULL
           /\ r.device_job_id # NULL
           /\ \A id \in {r.local_job_id[1], r.device_job_id[1]} :
                 id \in DOMAIN jobs' /\ jobs'[id].status \in Terminal
           /\ tasks' = tasks ]_vars

\* a request for the local simulator has returned both results
C6_Witness ==
    /\ requests # <<>>
    /\ LastRequest.quantum_device = "local_simulator"
    /\ LastRequest.quantum_result.success
    /\ LastRequest.quantum_result.device_result # NULL
    /\ LastRequest.quantum_result.device_result[1].quantum_number = 0
    /\ LastRequest.quantum_result.quantum_number = Some(5)

\* C7: a request whose backend id is not in the registry returns, in the
\* same call, a failure whose error names the unknown device; the call
\* spawns no task and changes neither the job table nor the entries.
C7_UnknownDeviceFails ==
    [][ ( /\ Returns
          /\ requests'[Len(requests')].quantum_device \notin DeviceIds )
        => /\ ~requests'[Len(requests')].quantum_result.success
           /\ requests'[Len(requests')].quantum_result.error =
                 Some(<<"Unknown quantum device",
                        requests'[Len(requests')].quantum_device>>)
           /\ ~requests'[Len(requests')].registered
           /\ tasks' = tasks
           /\ jobs' = jobs
           /\ signatures' = signatures ]_vars

\* a request for an unknown device has returned
C7_Witness ==
    /\ requests # <<>>
    /\ LastRequest.quantum_device = "no_such_device"
    /\ ~LastRequest.quantum_result.success

\* C8: for a backend with async_required the request returns while the
\* slow-track job is not terminal and its task has not run a step; no later
\* step of a background task, raising or not, changes a result that has
\* been returned.
C8_BackgroundIsolated ==
    [][ /\ ( /\ Returns
             /\ requests'[Len(requests')].quantum_result.success
             /\ IsAsync(requests'[Len(requests')].quantum_device) )
           => LET r == requests'[Len(requests')].quantum_result IN
              /\ r.device_job_id # NULL
              /\ r.device_job_id[1] \in DOMAIN jobs'
              /\ jobs'[r.device_job_id[1]].status \in Active
              /\ r.device_job_id[1] \in DOMAIN tasks'
              /\ tasks'[r.device_job_id[1]].pc = "spawned"
        /\ ( \E id \in DOMAIN tasks : tasks'[id] # tasks[id] )
           => requests' = requests
      ]_vars

\* a background task has raised after its request had returned success
C8_Witness ==
    /\ requests # <<>>
    /\ LastRequest.quantum_result.success
    /\ LastRequest.quantum_result.device_job_id # NULL
    /\ LastRequest.quantum_result.device_job_id[1] \in DOMAIN tasks
    /\ tasks[LastRequest.quantum_result.device_job_id[1]].pc = "done"
    /\ tasks[LastRequest.quantum_result.device_job_id[1]].raised
    /\ LastRequest.quantum_result.device_job_id[1] \in DOMAIN jobs
    /\ jobs[LastRequest.quantum_result.device_job_id[1]].status = "failed"

\* C9: every stored entry's primary value and correlation vector are those
\* of the result of its fast-track job, in every state: after the request,
\* after the background task has written the device results, after the
\* upgrade and after update-device-results.
C9_PrimaryIsFastTrack ==
    \A id \in DOMAIN signatures :
        /\ signatures[id].local_job_id # NULL
        /\ signatures[id].local_job_id[1] \in DOMAIN jobs
        /\ jobs[signatures[id].local_job_id[1]].result_data # NULL
        /\ signatures[id].quantum_number =
              jobs[signatures[id].local_job_id[1]].result_data[1].quantum_number
        /\ signatures[id].entanglement_data =
              jobs[signatures[id].local_job_id[1]].result_data[1].entanglement_data

\* an entry holds device results that differ from its primary value
C9_Witness ==
    \E id \in DOMAIN signatures :
        /\ signatures[id].device_quantum_number # NULL
        /\ signatures[id].device_quantum_number # Some(signatures[id].quantum_number)
        /\ signatures[id].device_entanglement_data # Some(signatures[id].entanglement_data)
        /\ signatures[id].device_id = "ionq_forte"

\* C10 (as claimed): a background job whose availability check was false
\* with no fallback device configured ends 'failed', never 'completed'.
C10_UnavailableFails ==
    \A id \in DOMAIN tasks :
        ( /\ tasks[id].pc = "done"
          /\ tasks[id].unavailable_no_fallback
          /\ id \in DOMAIN jobs )
        => /\ jobs[id].status = "failed"
           /\ jobs[id].error_message # NULL

-----------------------------------------------------------------------------
(* Claims about the background job's progress, checked under SpecLive *)

\* the poll of job_id that returned last saw a terminal status
ObservedTerminal(job_id) ==
    /\ last.op = "get_job_status"
    /\ last.job_id = job_id
    /\ last.status \in Terminal

-----------------------------------------------------------------------------
(* Claims about the executions inside a background task, checked under Spec *)

\* C11: when the availability check of an AWS device is false and the SV1
\* simulator is configured, the circuit is submitted to SV1 (and, within the
\* wait budget, its result is fetched from SV1); the job of a task that fell
\* back this way is 'completed' with a result for as long as it is stored.
C11_FallbackCompletes ==
    /\ \A device_id \in DeviceIds, coin \in BOOLEAN, expired \in BOOLEAN :
          ( /\ device_id \in aws_devices
            /\ aws_session
            /\ "aws_sv1" \in aws_devices
            /\ ~_check_device_availability(device_id, coin) )
          => /\ ExecPath(device_id, coin, expired) \in {"fallback_sv1", "timeout"}
             /\ ~expired => ExecPath(device_id, coin, expired) = "fallback_sv1"
    /\ \A id \in DOMAIN tasks \cap DOMAIN jobs :
          tasks[id].used_fallback
          => /\ tasks[id].pc = "done"
             /\ ~tasks[id].unavailable_no_fallback
             /\ jobs[id].status = "completed"
             /\ jobs[id].result_data # NULL
             /\ jobs[id].error_message = NULL

\* a task for the IonQ device has fallen back to SV1 within its wait budget
\* and its job is completed with the measured result
C11_Witness ==
    \E id \in DOMAIN tasks \cap DOMAIN jobs :
        /\ tasks[id].device_id = "ionq_forte"
        /\ tasks[id].used_fallback
        /\ ~tasks[id].timed_out
        /\ jobs[id].status = "completed"
        /\ jobs[id].result_data # NULL
        /\ jobs[id].result_data[1].entanglement_data = Measured

\* C12 (as claimed): the job of a background task whose wait budget was
\* exceeded is never 'completed' (it ends 'failed' with a Timeout error).
C12_TimeoutFails ==
    \A id \in DOMAIN tasks \cap DOMAIN jobs :
        tasks[id].timed_out => jobs[id].status # "completed"

\* C13: every request in which an exception was raised (in the fast track,
\* in the inline slow track or in register_signature itself) has returned a
\* failure dict: process_quantum_signature returns success False with the
\* exception's text when the exception was raised inside it, and
\* register_signature returns success False with an error and stores no
\* entry.  Every returned dict is a success or carries an error.
C13_ExceptionsReturned ==
    \A i \in 1..Len(requests) :
        LET q == requests[i] IN
        /\ q.fail \in {"fast", "slow"}
           => /\ ~q.quantum_result.success
              /\ q.quantum_result.error = Some(ExceptionText)
        /\ q.fail # "none"
           => /\ ~q.response.success
              /\ q.response.error = Some(ExceptionText)
              /\ ~q.registered
        /\ q.quantum_result.success \/ q.quantum_result.error # NULL
        /\ q.response.success \/ q.response.error # NULL

\* a request for the local simulator has failed in its inline slow track,
\* after the fast-track job was completed
C13_Witness ==
    /\ requests # <<>>
    /\ LastRequest.quantum_device = "local_simulator"
    /\ LastRequest.fail = "slow"
    /\ ~LastRequest.response.success
    /\ \E id \in DOMAIN jobs : jobs[id].status = "running"
    /\ \E id \in DOMAIN jobs : jobs[id].status = "completed"

\* C14 (as claimed): the job of a finished background task whose
\* computation raised an exception (one that reached the task's handler, or
\* the "unavailable" / "timeout" exception raised while a circuit was
\* executed) is 'failed' with the exception's message as its error.
C14_RaisedComputationFails ==
    \A id \in DOMAIN tasks \cap DOMAIN jobs :
        ( /\ tasks[id].pc = "done"
          /\ \/ tasks[id].raised
             \/ tasks[id].unavailable_no_fallback
             \/ tasks[id].timed_out )
        => /\ jobs[id].status = "failed"
           /\ jobs[id].error_message # NULL
           /\ jobs[id].result_data = NULL

-----------------------------------------------------------------------------
(* Claims about the bulk clear of the JobStore, checked under SpecStore *)

\* C15: a step of clear_all_jobs leaves the store empty and returns the
\* number of jobs stored just before it; no step of any operation removes
\* some of the jobs and keeps others, so no create, update or read that
\* runs before or after it sees a partly cleared store.
C15_ClearAllAtomic ==
    [][ /\ StoreClear => /\ DOMAIN jobs' = {}
                         /\ last'.job_id = Cardinality(DOMAIN jobs)
        /\ DOMAIN jobs \subseteq DOMAIN jobs' \/ DOMAIN jobs' = {} ]_vars

\* clear_all_jobs has returned 2 and has left the store empty
C15_Witness ==
    /\ last.op = "clear_all_jobs"
    /\ last.job_id = 2
    /\ DOMAIN jobs = {}
    /\ nextJobId > 2

-----------------------------------------------------------------------------
(* PlacementEngine: _generate_collision_free_position.  Positions and sizes
   are percentages of the container; they are kept here as integers in
   hundredths of a percent (the floor of the value the code computes). *)

\* number of entries placed one after another
MaxPlaced == 3

Max(a, b) == IF a >= b THEN a ELSE b

Min(a, b) == IF a <= b THEN a ELSE b

Abs(a) == IF a >= 0 THEN a ELSE 0 - a

\* estimated_viewport_width, and max(600, int(estimated_viewport_height * 0.8))
container_width == 1400

container_height == Max(600, (900 * 8) \div 10)

\* card size and spacing in pixels for the density band of num_signatures
CardLayout(num_signatures) ==
    IF num_signatures <= 4
    THEN [ card_width  |-> Max(280, Min(400, (container_width * 10) \div 28)),
           card_height |-> Max(180, Min(240, (container_height * 10) \div 28)),
           min_spacing |-> 30 ]
    ELSE IF num_signatures <= 6
    THEN [ card_width  |-> Max(250, Min(350, (container_width * 10) \div 32)),
           card_height |-> Max(160, Min(220, (container_height * 10) \div 26)),
           min_spacing |-> 25 ]
    ELSE IF num_signatures <= 9
    THEN [ card_width  |-> Max(220, Min(300, (container_width * 10) \div 38)),
           card_height |-> Max(140, Min(190, (container_height * 10) \div 32)),
           min_spacing |-> 20 ]
    ELSE IF num_signatures <= 12
    THEN [ card_width  |-> Max(200, Min(260, (container_width * 10) \div 45)),
           card_height |-> Max(130, Min(170, (container_height * 10) \div 38)),
           min_spacing |-> 15 ]
    ELSE [ card_width  |-> Max(180, Min(220, (container_width * 10) \div 55)),
           card_height |-> Max(120, Min(150, (container_height * 10) \div 45)),
           min_spacing |-> 12 ]

\* (card_width / container_width * 100) * 1.02 + 6 / container_width * 100
effective_width_pct(num_signatures) ==
    (CardLayout(num_signatures).card_width * 10200 + 6 * 10000) \div container_width

effective_height_pct(num_signatures) ==
    (CardLayout(num_signatures).card_height * 10200 + 6 * 10000) \div container_height

spacing_pct(num_signatures) ==
    (CardLayout(num_signatures).min_spacing * 10000) \div container_width

\* the concentric zones, inner first
zones ==
    << [ x_min |-> 3000, x_max |-> 7000, y_min |-> 3000, y_max |-> 7000 ],
       [ x_min |-> 2000, x_max |-> 8000, y_min |-> 2000, y_max |-> 8000 ],
       [ x_min |-> 1500, x_max |-> 8500, y_min |-> 1500, y_max |-> 8500 ] >>

\* the clustering region of each device; the key 'rigetti_ankaa' is no
\* device id
device_regions ==
    [ local_simulator |-> [ x_min |-> 2000, x_max |-> 5000, y_min |-> 2000, y_max |-> 5000 ],
      aws_sv1         |-> [ x_min |-> 5000, x_max |-> 8000, y_min |-> 2000, y_max |-> 5000 ],
      ionq_forte      |-> [ x_min |-> 2000, x_max |-> 5000, y_min |-> 5000, y_max |-> 8000 ],
      iqm_garnet      |-> [ x_min |-> 5000, x_max |-> 8000, y_min |-> 5000, y_max |-> 8000 ],
      quera_aquila    |-> [ x_min |-> 3000, x_max |-> 7000, y_min |-> 3000, y_max |-> 7000 ],
      rigetti_ankaa   |-> [ x_min |-> 2500, x_max |-> 7500, y_min |-> 2500, y_max |-> 7500 ] ]

\* device_regions.get(device_id, default)
device_region(device_id) ==
    IF device_id \in DOMAIN device_regions THEN device_regions[device_id]
    ELSE [ x_min |-> 1000, x_max |-> 9000, y_min |-> 1000, y_max |-> 9000 ]

max_attempts == 150

grid_size == 8

\* the zone of an attempt intersected with the region of the device
EffectiveZone(attempt, device_id) ==
    LET zone == IF attempt < 50 THEN zones[1]
                ELSE IF attempt < 100 THEN zones[2] ELSE zones[3]
        region == device_region(device_id)
    IN  [ x_min |-> Max(zone.x_min, region.x_min),
          x_max |-> Min(zone.x_max, region.x_max),
          y_min |-> Max(zone.y_min, region.y_min),
          y_max |-> Min(zone.y_max, region.y_max) ]

\* The generator seeded with quantum_number: the k-th draw of a placement
\* is one of three fractions (0, 1/2, 1) of the interval, fixed by the seed.
Uniform(seed, k, a, b) == a + (((seed + k) % 3) * (b - a)) \div 2

\* One attempt inside the effective zone z for a card of effective size
\* w by h: the candidate before clamping, drawn with the draws k and k + 1
\* of the generator; NULL when the attempt is skipped (`continue`)
CandidateIn(z, w, h, attempt, k, seed) ==
    IF z.x_max <= z.x_min \/ z.y_max <= z.y_min THEN NULL
    ELSE IF attempt < 75
    THEN IF /\ attempt % grid_size < grid_size
            /\ attempt \div grid_size < grid_size
            /\ z.x_max - z.x_min - w > 0
            /\ z.y_max - z.y_min - h > 0
         THEN Some([ x |-> z.x_min
                            + ((attempt % grid_size) * (z.x_max - z.x_min - w))
                                  \div Max(1, grid_size - 1)
                            + Uniform(seed, k, 0 - 200, 200),
                     y |-> z.y_min
                            + ((attempt \div grid_size) * (z.y_max - z.y_min - h))
                                  \div Max(1, grid_size - 1)
                            + Uniform(seed, k + 1, 0 - 200, 200) ])
         ELSE NULL
    ELSE IF z.x_max - z.x_min > w /\ z.y_max - z.y_min > h
    THEN Some([ x |-> Uniform(seed, k, z.x_min, z.x_max - w),
                y |-> Uniform(seed, k + 1, z.y_min, z.y_max - h) ])
    ELSE NULL

\* the candidate of one attempt for the device and the number of entries
Candidate(attempt, k, device_id, seed, num_signatures) ==
    CandidateIn(EffectiveZone(attempt, device_id),
                effective_width_pct(num_signatures),
                effective_height_pct(num_signatures),
                attempt, k, seed)

\* faulty variant: the position is not clamped
ClampToBand_None(v, effective_pct) == v

\* max(12, min(88 - effective_pct, v))
ClampToBand(v, effective_pct) == Max(1200, Min(8800 - effective_pct, v))

\* the collision test of a candidate p against the existing entries, with
\* the effective size and spacing of the entry being placed
CollisionFound(p, existing, num_signatures) ==
    \E e \in existing :
        /\ Abs(p.x - e.position_x)
              < effective_width_pct(num_signatures) + spacing_pct(num_signatures)
        /\ Abs(p.y - e.position_y)
              < effective_height_pct(num_signatures) + spacing_pct(num_signatures)

\* math.cos and math.sin of signature_count * 0.8, in thousandths, for
\* signature_count = 0 .. 20
SpiralCos ==
    << 1000, 697, -29, -737, -998, -654, 87, 776, 993, 608, -146,
       -811, -985, -561, 203, 844, 973, 512, -260, -874, -958 >>

SpiralSin ==
    << 0, 717, 1000, 675, -58, -757, -996, -631, 117, 794, 989,
       585, -174, -828, -979, -537, 232, 859, 966, 486, -288 >>

\* _generate_center_spiral_position: no collision test
_generate_center_spiral_position(signature_count, effective_width, effective_height) ==
    LET radius == 800 + signature_count * 250 IN
    [ x |-> ClampToBand(5000 + (radius * SpiralCos[signature_count + 1]) \div 1000,
                        effective_width),
      y |-> ClampToBand(5000 + (radius * SpiralSin[signature_count + 1]) \div 1000,
                        effective_height) ]

\* the attempts of a block that propose a candidate (the others are skipped)
Proposing(block, device_id, seed, num_signatures) ==
    { a \in block : Candidate(a, 0, device_id, seed, num_signatures) # NULL }

\* the candidate c clamped for a card of the effective size
Clamp(c, num_signatures) ==
    [ x |-> ClampToBand(c.x, effective_width_pct(num_signatures)),
      y |-> ClampToBand(c.y, effective_height_pct(num_signatures)) ]

\* The clamped candidate of attempt a of a block entered with k draws taken:
\* an attempt that is skipped takes no draw, one that proposes a candidate
\* takes two.
Clamped(a, k, proposing, device_id, seed, num_signatures) ==
    Clamp(Candidate(a, k + 2 * Cardinality({ b \in proposing : b < a }),
                    device_id, seed, num_signatures)[1],
          num_signatures)

\* the attempts of a block whose clamped candidate has no collision
Accepted(k, proposing, existing, device_id, seed, num_signatures) ==
    { a \in proposing :
        ~CollisionFound(Clamped(a, k, proposing, device_id, seed, num_signatures),
                        existing, num_signatures) }

\* the first of a non-empty set of attempts
FirstAttempt(attempts) == CHOOSE a \in attempts : \A b \in attempts : a <= b

\* The loop over the attempts, scanned eight at a time from attempt `first`
\* on, with k draws taken so far: the first clamped candidate without a
\* collision, or NULL after max_attempts.
RECURSIVE SearchFrom(_, _, _, _, _)
RECURSIVE SearchBlock(_, _, _, _, _, _)
SearchBlock(first, k, proposing, existing, device_id, seed) ==
    IF Accepted(k, proposing, existing, device_id, seed, Cardinality(existing) + 1) = {}
    THEN SearchFrom(first + grid_size, k + 2 * Cardinality(proposing),
                    existing, device_id, seed)
    ELSE Some(Clamped(FirstAttempt(Accepted(k, proposing, existing, device_id, seed,
                                            Cardinality(existing) + 1)),
                      k, proposing, device_id, seed, Cardinality(existing) + 1))

SearchFrom(first, k, existing, device_id, seed) ==
    IF first >= max_attempts THEN NULL
    ELSE SearchBlock(first, k,
                     Proposing(first..Min(first + grid_size - 1, max_attempts - 1),
                               device_id, seed, Cardinality(existing) + 1),
                     existing, device_id, seed)

\* The module-level generator of `random` is shared by every caller in the
\* process; its state is the residue that fixes its next draw.
GeneratorStates == 0..2

\* faulty variant: the generator is left in the state the earlier draws put it in
random_seed_Keep(generator, a) == generator

\* random.seed(a): the state depends on a alone
random_seed(generator, a) == a % 3

\* _generate_collision_free_position, entered with the module-level
\* generator in state `generator`; `existing` is the set of rows of
\* get_all_signatures.  The state the call leaves the generator in is not
\* returned: its other reader, random.choice in the availability check, is
\* a free choice of the model.
_generate_collision_free_position(generator, existing, device_id, quantum_number) ==
    LET found == SearchFrom(0, 0, existing, device_id,
                            random_seed(generator, quantum_number))
        num_signatures == Cardinality(existing) + 1
    IN  IF found # NULL
        THEN [ x |-> found[1].x, y |-> found[1].y, spiral |-> FALSE ]
        ELSE LET p == _generate_center_spiral_position(
                          Cardinality(existing),
                          effective_width_pct(num_signatures),
                          effective_height_pct(num_signatures))
             IN  [ x |-> p.x, y |-> p.y, spiral |-> TRUE ]

\* the devices and seeds of the entries placed
PlaceDevices == {"local_simulator", "aws_sv1", "quera_aquila", "rigetti_ankaa3"}

PlaceSeeds == {0, 1, 2}

\* the state of the generator when these entries are placed
PlaceGenerators == {0}

\* the rows of get_all_signatures, with the columns the placement reads (and
\* the way the position was found)
get_all_signatures(table) == { table[id] : id \in DOMAIN table }

\* One entry is placed and stored: generate_visual_properties in
\* register_signature, then add_signature.
PlaceEntry(generator, device_id, quantum_number) ==
    /\ nextSigId <= MaxPlaced
    /\ LET p == _generate_collision_free_position(
                    generator, get_all_signatures(signatures), device_id,
                    quantum_number)
       IN  signatures' = add_signature(signatures, nextSigId,
               [ id |-> nextSigId, device_id |-> device_id,
                 position_x |-> p.x, position_y |-> p.y, spiral |-> p.spiral ])
    /\ nextSigId' = nextSigId + 1
    /\ last' = NoLast
    /\ UNCHANGED <<jobs, nextJobId, tasks, requests>>
    /\ AwsUnchanged
    /\ CacheUnchanged
    /\ IssuedUnchanged
    /\ LocksUnchanged
    /\ RegistryUnchanged

NextPlace ==
    \E generator \in PlaceGenerators, device_id \in PlaceDevices,
       quantum_number \in PlaceSeeds :
        PlaceEntry(generator, device_id, quantum_number)

\* the service without an AWS session
InitPlace == Init /\ ~aws_session

SpecPlace == InitPlace /\ [][NextPlace]_vars

-----------------------------------------------------------------------------
(* Claims about the PlacementEngine, checked under SpecPlace *)

\* the effective bounding boxes of two stored entries at positions p and q
\* overlap, with the effective size of the current number of entries
BoxesOverlap(p, q) ==
    /\ Abs(p.position_x - q.position_x) < effective_width_pct(Cardinality(DOMAIN signatures))
    /\ Abs(p.position_y - q.position_y) < effective_height_pct(Cardinality(DOMAIN signatures))

\* C16 (as claimed): no two entries placed one after another have
\* overlapping effective bounding boxes.
C16_NoOverlap ==
    \A i \in DOMAIN signatures, j \in DOMAIN signatures :
        i # j => ~BoxesOverlap(signatures[i], signatures[j])

\* C17: every stored position, found by the candidate search or by the
\* spiral, has both coordinates in [12, 88]; and so has the spiral position
\* for every number of existing entries from 0 to 20.
C17_InsideBand ==
    /\ \A id \in DOMAIN signatures :
          /\ 1200 <= signatures[id].position_x /\ signatures[id].position_x <= 8800
          /\ 1200 <= signatures[id].position_y /\ signatures[id].position_y <= 8800
    /\ \A signature_count \in 0..20 :
          LET p == _generate_center_spiral_position(
                       signature_count,
                       effective_width_pct(signature_count + 1),
                       effective_height_pct(signature_count + 1))
          IN  /\ 1200 <= p.x /\ p.x <= 8800
              /\ 1200 <= p.y /\ p.y <= 8800

\* one entry was placed by the candidate search with no entry before it and
\* another by the spiral
C17_Witness ==
    /\ 1 \in DOMAIN signatures
    /\ ~signatures[1].spiral
    /\ \E id \in DOMAIN signatures : signatures[id].spiral

-----------------------------------------------------------------------------
(* The memoized computation: _generate_quantum_random_number called directly
   with seeds that repeat *)

\* number of direct calls of the computation
MaxCalls == 3

\* the devices and seeds of the direct calls
CallDevices == {"local_simulator", "quera_aquila"}

CallSeeds == {"alice"}

\* seconds between one call and the one before it
Gaps == {0, 1, 1000}

\* hash(seed_text + str(time.time())) % 1000 of the exception handlers
HashValues == {0, 7}

\* hashlib.md5(f"{device_id}_{seed_text}").hexdigest(): the digest is taken
\* to be free of collisions, the formatted text is kept
cache_key(device_id, seed_text) == device_id \o "_" \o seed_text

\* _generate_quantum_random_number with the cache `cache` at the clock reading
\* `now`: what it returns and the cache it leaves.  `measured` is the number
\* given by the execution, `ahsRaises` tells that _ahs_from_seed raised and
\* `hashed` is the number of the exception handler.
_generate_quantum_random_number(cache, device_id, seed_text, now, measured, ahsRaises, hashed) ==
    IF cache_key(device_id, seed_text) \in DOMAIN cache
    THEN [ value  |-> (cache[cache_key(device_id, seed_text)] + now) % 1000,
           cache  |-> cache, hit |-> TRUE, raised |-> FALSE ]
    ELSE IF IdHas(device_id, "quera") /\ ahsRaises
    THEN [ value  |-> hashed % 1000,
           cache  |-> cache, hit |-> FALSE, raised |-> TRUE ]
    ELSE [ value  |-> measured,
           cache  |-> [ k \in DOMAIN cache \cup {cache_key(device_id, seed_text)} |->
                          IF k = cache_key(device_id, seed_text)
                          THEN measured ELSE cache[k] ],
           hit |-> FALSE, raised |-> FALSE ]

\* One direct call, made `elapsed` seconds after the call before it.
GenerateNumber(device_id, seed_text, elapsed, measured, ahsRaises, hashed) ==
    /\ Len(returned) < MaxCalls
    /\ ahsRaises => IdHas(device_id, "quera")
    /\ LET r == _generate_quantum_random_number(
                    _circuit_cache, device_id, seed_text, clock + elapsed,
                    measured, ahsRaises, hashed)
       IN  /\ _circuit_cache' = r.cache
           /\ returned' = Append(returned,
                  [ device_id |-> device_id, seed_text |-> seed_text,
                    at |-> clock + elapsed, value |-> r.value,
                    hit |-> r.hit, raised |-> r.raised ])
    /\ clock' = clock + elapsed
    /\ UNCHANGED <<jobs, nextJobId, signatures, nextSigId, tasks, requests, last>>
    /\ AwsUnchanged
    /\ IssuedUnchanged
    /\ LocksUnchanged
    /\ RegistryUnchanged

NextCache ==
    \E device_id \in CallDevices, seed_text \in CallSeeds, elapsed \in Gaps,
       measured \in { o.quantum_number : o \in Outcomes },
       ahsRaises \in BOOLEAN, hashed \in HashValues :
        GenerateNumber(device_id, seed_text, elapsed, measured, ahsRaises, hashed)

\* the service without an AWS session
InitCache == Init /\ ~aws_session

SpecCache == InitCache /\ [][NextCache]_vars

-----------------------------------------------------------------------------
(* Claims about the memoized computation, checked under SpecCache *)

\* C18 (as claimed): two calls with the same device and seed that used the
\* cache, made at clock readings at least one second apart, never return
\* the same value.
C18_SeparatedCallsDiffer ==
    \A i \in 1..Len(returned), j \in 1..Len(returned) :
        ( /\ i < j
          /\ returned[i].device_id = returned[j].device_id
          /\ returned[i].seed_text = returned[j].seed_text
          /\ ~returned[i].raised /\ ~returned[j].raised
          /\ returned[j].at - returned[i].at >= 1 )
        => returned[i].value # returned[j].value

-----------------------------------------------------------------------------
(* Claims about the jobs of one request, checked under Spec *)

\* C19 (as claimed): a successful request that selects the fast-track
\* backend 'local_simulator' itself creates one job only: the device_job_id
\* returned equals the local_job_id and the job table grows by one row.
C19_OneJobForFastBackend ==
    [][ ( /\ Returns
          /\ requests'[Len(requests')].quantum_device = "local_simulator"
          /\ requests'[Len(requests')].quantum_result.success )
        => /\ requests'[Len(requests')].quantum_result.device_job_id
                = requests'[Len(requests')].quantum_result.local_job_id
           /\ Cardinality(DOMAIN jobs') = Cardinality(DOMAIN jobs) + 1 ]_vars

\* C20 (as claimed): a successful request that selects a managed simulator
\* runs the slow track inline: the dict returned carries the device result
\* and no background task is spawned.
C20_ManagedRunsInline ==
    [][ ( /\ Returns
          /\ requests'[Len(requests')].quantum_result.success
          /\ devices[requests'[Len(requests')].quantum_device].type
                = "managed_simulator" )
        => /\ requests'[Len(requests')].quantum_result.device_result # NULL
           /\ tasks' = tasks ]_vars

-----------------------------------------------------------------------------
(* Claims about the job of the slow track, checked under Spec *)

\* C21 (as claimed): when a request for a backend with async_required
\* returns success, the slow-track job is stored with status 'submitted'
\* and its estimated_completion is set.
C21_SubmittedAtReturn ==
    [][ ( /\ Returns
          /\ requests'[Len(requests')].quantum_result.success
          /\ IsAsync(requests'[Len(requests')].quantum_device) )
        => LET job_id == requests'[Len(requests')].quantum_result.device_job_id[1] IN
           /\ job_id \in DOMAIN jobs'
           /\ jobs'[job_id].status = "submitted"
           /\ jobs'[job_id].estimated_completion # NULL ]_vars

-----------------------------------------------------------------------------
(* Claims about the ids of the jobs, checked under SpecStore *)

Forward ==
    { <<"created", "submitted">>, <<"created", "running">>,
      <<"submitted", "running">>,
      <<"running", "completed">>, <<"running", "failed">> }

C24_FastFailureMarksFailed ==
    [][ ( /\ Returns
          /\ requests'[Len(requests')].fail = "fast" )
        => /\ NewJobId(nextJobId) \in DOMAIN jobs'
           /\ jobs'[NewJobId(nextJobId)].status = "failed"
           /\ jobs'[NewJobId(nextJobId)].error_message # NULL ]_vars

-----------------------------------------------------------------------------
(* The lock of the JobStore: the store driven through two handles by two
   callers that can run at the same time *)

\* who can issue a transaction: the tasks of the event loop, of which one
\* runs at a time, and a thread beside it
Callers == {"event_loop", "thread"}

\* the caller is inside the lock-protected section of some handle
Inside(caller) == \E h \in Handles : locks[h] = Some(caller)

LockFrame ==
    UNCHANGED <<signatures, nextSigId, tasks, requests, aws_session, aws_devices,
                _circuit_cache, clock, returned, registry>>

\* `with self.lock:` of any method of the handle: the caller waits until the
\* lock of that handle is free and takes it
LockEnter(caller, handle) ==
    /\ ~Inside(caller)
    /\ locks[handle] = NULL
    /\ locks' = [locks EXCEPT ![handle] = Some(caller)]
    /\ UNCHANGED <<jobs, nextJobId, issued, last>>
    /\ LockFrame

\* create_job commits and leaves the section
LockCreate(caller, handle, device_id, user_name) ==
    /\ locks[handle] = Some(caller)
    /\ nextJobId <= MaxStoreJobs
    /\ jobs' = create_job(jobs, NewJobId(nextJobId), device_id, <<device_id>>,
                          user_name, "Hello")
    /\ nextJobId' = nextJobId + 1
    /\ issued' = issued \cup {NewJobId(nextJobId)}
    /\ last' = [op |-> "create_job", job_id |-> NewJobId(nextJobId), status |-> ""]
    /\ locks' = [locks EXCEPT ![handle] = NULL]
    /\ LockFrame

\* update_job_status commits and leaves the section
LockUpdate(caller, handle, job_id, status) ==
    /\ locks[handle] = Some(caller)
    /\ jobs' = update_job_status(jobs, job_id, status, NoKwargs)
    /\ last' = [op |-> "update_job_status", job_id |-> job_id, status |-> ""]
    /\ locks' = [locks EXCEPT ![handle] = NULL]
    /\ UNCHANGED <<nextJobId, issued>>
    /\ LockFrame

\* get_job reads and leaves the section
LockGet(caller, handle, job_id) ==
    /\ locks[handle] = Some(caller)
    /\ last' = [op |-> "get_job", job_id |-> job_id,
                status |-> IF get_job(jobs, job_id) = NULL THEN "not_found"
                           ELSE get_job(jobs, job_id)[1].status]
    /\ locks' = [locks EXCEPT ![handle] = NULL]
    /\ UNCHANGED <<jobs, nextJobId, issued>>
    /\ LockFrame

\* clear_all_jobs commits and leaves the section
LockClear(caller, handle) ==
    /\ locks[handle] = Some(caller)
    /\ jobs' = clear_all_jobs(jobs)
    /\ last' = [op |-> "clear_all_jobs", job_id |-> Cardinality(DOMAIN jobs), status |-> ""]
    /\ locks' = [locks EXCEPT ![handle] = NULL]
    /\ UNCHANGED <<nextJobId, issued>>
    /\ LockFrame

NextLock ==
    \E caller \in Callers, handle \in Handles :
        \/ LockEnter(caller, handle)
        \/ \E c \in StoreCallers : LockCreate(caller, handle, c[1], c[2])
        \/ \E id \in StoreIds, st \in {"running", "completed"} :
               LockUpdate(caller, handle, id, st)
        \/ \E id \in StoreIds : LockGet(caller, handle, id)
        \/ LockClear(caller, handle)

InitLock == Init /\ ~aws_session

SpecLock == InitLock /\ [][NextLock]_vars

\* C25 (as claimed): at most one lock-protected section of the JobStore is
\* occupied at any instant, whichever handle it belongs to.
C25_OneSectionAtATime ==
    \A g \in Handles, h \in Handles :
        (locks[g] # NULL /\ locks[h] # NULL) => g = h

-----------------------------------------------------------------------------
(* Claims about entries and their jobs, checked under Spec *)

\* C26: when an entry is inserted, it names two different jobs, and both
\* have been created (their ids were returned by create_job and their rows
\* are stored) by the time of the insert.
C26_JobsBeforeEntry ==
    [][ \A id \in DOMAIN signatures' \ DOMAIN signatures :
           /\ signatures'[id].local_job_id # NULL
           /\ signatures'[id].device_job_id # NULL
           /\ signatures'[id].local_job_id # signatures'[id].device_job_id
           /\ signatures'[id].local_job_id[1] \in issued' \cap DOMAIN jobs'
           /\ signatures'[id].device_job_id[1] \in issued' \cap DOMAIN jobs' ]_vars

\* an entry is stored for a backend whose slow track runs in the background
C26_Witness ==
    \E id \in DOMAIN signatures :
        /\ signatures[id].device_job_id # NULL
        /\ signatures[id].device_job_id[1] \in DOMAIN tasks

\* a background task takes a step: the position of `job_id`'s task changes
TaskSteps(job_id) ==
    /\ job_id \in DOMAIN tasks
    /\ job_id \in DOMAIN tasks'
    /\ tasks'[job_id] # tasks[job_id]

\* C27 (as claimed): a step of a background task writes its own job row
\* only: no entry, no other job and no cache entry changes.
C27_TaskWritesOwnJobOnly ==
    [][ \A job_id \in DOMAIN tasks :
           TaskSteps(job_id)
           => /\ signatures' = signatures
              /\ \A other \in DOMAIN jobs \ {job_id} :
                    other \in DOMAIN jobs' /\ jobs'[other] = jobs[other]
              /\ _circuit_cache' = _circuit_cache ]_vars

-----------------------------------------------------------------------------
(* The DeviceRegistry driven through its readers and the device listings *)

\* `device_info['arn'].startswith('arn:aws:braket')`
ArnIsBraket(info) ==
    /\ Len(info.arn) >= 3
    /\ info.arn[1] = "arn" /\ info.arn[2] = "aws" /\ info.arn[3] = "braket"

\* EnhancedQuantumService.get_available_devices: the two fields written into
\* the record of device_id
service_status(device_id, info, session, opened) ==
    IF device_id = "local_simulator"
    THEN [status |-> "Always Available", aws_configured |-> FALSE]
    ELSE IF session /\ device_id \in opened
    THEN [status |-> "AWS Connected", aws_configured |-> TRUE]
    ELSE IF ArnIsBraket(info)
    THEN [status |-> "AWS Not Configured", aws_configured |-> FALSE]
    ELSE [status |-> "Available", aws_configured |-> FALSE]

\* handler_devices: the two fields written into the record of device_id
handler_status(device_id, opened) ==
    IF device_id = "local_simulator"
    THEN [status |-> "Always Available", aws_configured |-> FALSE]
    ELSE IF device_id \in opened
    THEN [status |-> "AWS Connected", aws_configured |-> TRUE]
    ELSE [status |-> "Requires AWS Configuration", aws_configured |-> FALSE]

\* `device_info[k] = v` for the fields of written: the record is updated in place
SetFields(info, written) == written @@ info

\* the ids a caller may ask for: every id of either registry and an unknown one
RegistryAskIds == PackageDeviceIds \cup {"no_such_device"}

RegistryFrame ==
    UNCHANGED <<jobs, nextJobId, signatures, nextSigId, tasks, requests,
                aws_session, aws_devices, _circuit_cache, clock, returned,
                issued, locks>>

\* QuantumDeviceManager.get_device_info of registry r: self.devices.get(device_id, {})
GetDeviceInfo(r, device_id) ==
    /\ last' = [ op |-> "get_device_info", job_id |-> 0, status |-> "",
                 registry |-> r, device_id |-> device_id,
                 result |-> IF device_id \in DOMAIN registry[r]
                            THEN Some(registry[r][device_id]) ELSE NULL ]
    /\ UNCHANGED registry
    /\ RegistryFrame

\* QuantumDeviceManager.get_available_devices of registry r: self.devices, or
\* a copy of the mapping whose values are the records of the registry
ManagerListDevices(r) ==
    /\ last' = [ op |-> "get_available_devices", job_id |-> 0, status |-> "",
                 registry |-> r, device_id |-> "", result |-> Some(registry[r]) ]
    /\ UNCHANGED registry
    /\ RegistryFrame

\* GET /devices: EnhancedQuantumService.get_available_devices
ServiceListDevices ==
    LET r == "enhanced_quantum_service"
        listed == [ device_id \in DOMAIN registry[r] |->
                      SetFields(registry[r][device_id],
                                service_status(device_id, registry[r][device_id],
                                               aws_session, aws_devices)) ]
    IN  /\ registry' = [registry EXCEPT ![r] = listed]
        /\ last' = [ op |-> "service.get_available_devices", job_id |-> 0,
                     status |-> "", registry |-> r, device_id |-> "",
                     result |-> Some(listed) ]
        /\ RegistryFrame

\* handler_devices of the Lambda package; the devices its service opened
\* are taken to be those of aws_devices
HandlerDevices ==
    LET r == "quantum_service"
        listed == [ device_id \in DOMAIN registry[r] |->
                      SetFields(registry[r][device_id],
                                handler_status(device_id, aws_devices)) ]
    IN  /\ registry' = [registry EXCEPT ![r] = listed]
        /\ last' = [ op |-> "handler_devices", job_id |-> 0, status |-> "",
                     registry |-> r, device_id |-> "", result |-> Some(listed) ]
        /\ RegistryFrame

NextRegistry ==
    \/ \E r \in Registries, device_id \in RegistryAskIds : GetDeviceInfo(r, device_id)
    \/ \E r \in Registries : ManagerListDevices(r)
    \/ ServiceListDevices
    \/ HandlerDevices

InitRegistry == Init

SpecRegistry == InitRegistry /\ [][NextRegistry]_vars

\* C28: no operation after construction changes the DeviceRegistry: after
\* get_device_info, get_available_devices and every listing of the devices,
\* each record of each registry has the fields and values it was constructed with.
C28_RegistryAsConstructed ==
    \A r \in Registries : registry[r] = Constructed(r)

-----------------------------------------------------------------------------
(* The job statistics and the list of active jobs *)

\* C29: in every reachable state every stored job is counted in exactly one of
\* the active, completed and failed counts of get_job_stats (their sum is the
\* number of stored jobs), and the active count is the number of jobs that
\* get_active_jobs returns, which are exactly the jobs whose status is
\* created, submitted or running.
C29_StatsPartitionJobs ==
    LET stats == get_job_stats(jobs)
        listed == get_active_jobs(jobs)
    IN  /\ stats.active + stats.completed + stats.failed = Cardinality(DOMAIN jobs)
        /\ \A id \in DOMAIN jobs :
              Cardinality({ c \in { {"created", "submitted", "running"},
                                    {"completed"}, {"failed"} } :
                            jobs[id].status \in c }) = 1
        /\ stats.active = Cardinality(listed)
        /\ listed = { id \in DOMAIN jobs :
                        jobs[id].status \in {"created", "submitted", "running"} }

\* a request has left one job waiting and one job completed, and the
\* statistics count one of each
C29_Witness ==
    /\ Cardinality(DOMAIN jobs) = 2
    /\ get_job_stats(jobs).active = 1
    /\ get_job_stats(jobs).completed = 1
    /\ \E id \in get_active_jobs(jobs) : jobs[id].status = "created"

\* C30: the placement returns the first candidate of its search that overlaps
\* no existing entry and falls back to the spiral only when every candidate
\* tried overlapped an existing entry; in particular an entry placed on an
\* empty wall has its position from the candidate search, not from the spiral.
C30_EmptyWallUsesSearch ==
    [][ (signatures = [ id \in {} |-> NULL ] /\ nextSigId' = nextSigId + 1)
          => \A id \in DOMAIN signatures' : ~signatures'[id].spiral ]_vars

-----------------------------------------------------------------------------
(* The placement called twice on one snapshot of the entries *)

\* the backends and seeds of these calls: one backend whose entries come from
\* the spiral and two whose entries come from the candidate search
TwiceDevices == {"local_simulator", "quera_aquila", "rigetti_ankaa3"}

TwiceSeeds == {0, 1}

\* the first entry of the wall is placed and stored
PlaceFirst(generator, device_id, quantum_number) ==
    /\ signatures = [ id \in {} |-> NULL ]
    /\ PlaceEntry(generator, device_id, quantum_number)

\* _generate_collision_free_position called on its own: the entries it read
\* and the position it returned are kept in `last`
PlaceCall(generator, device_id, quantum_number) ==
    /\ LET existing == get_all_signatures(signatures)
           p == _generate_collision_free_position(generator, existing, device_id,
                                                  quantum_number)
       IN  last' = [ op |-> "place", job_id |-> 0, status |-> "",
                     generator |-> generator, existing |-> existing,
                     device_id |-> device_id, quantum_number |-> quantum_number,
                     x |-> p.x, y |-> p.y ]
    /\ UNCHANGED <<jobs, nextJobId, signatures, nextSigId, tasks, requests>>
    /\ AwsUnchanged
    /\ CacheUnchanged
    /\ IssuedUnchanged
    /\ LocksUnchanged
    /\ RegistryUnchanged

NextTwice ==
    \E generator \in GeneratorStates, device_id \in TwiceDevices,
       quantum_number \in TwiceSeeds :
        \/ PlaceFirst(generator, device_id, quantum_number)
        \/ PlaceCall(generator, device_id, quantum_number)

InitTwice == Init /\ ~aws_session

SpecTwice == InitTwice /\ [][NextTwice]_vars

\* C31: the placement is deterministic and read-only: after a call, a second
\* call on the same snapshot of the entries with the same seed and the same
\* backend returns the same coordinates whatever state the generator is in,
\* and the stored entries are still the snapshot the call read.
C31_SameInputsSamePosition ==
    last.op = "place" =>
        /\ \A generator \in GeneratorStates :
              LET again == _generate_collision_free_position(
                               generator, last.existing, last.device_id,
                               last.quantum_number)
              IN  again.x = last.x /\ again.y = last.y
        /\ get_all_signatures(signatures) = last.existing

\* a call on a wall of one entry whose position came from the candidate
\* search, made with the generator in another state than the seed puts it in
C31_Witness ==
    /\ last.op = "place"
    /\ last.existing # {}
    /\ last.generator # random_seed(last.generator, last.quantum_number)
    /\ ~_generate_collision_free_position(last.generator, last.existing,
                                          last.device_id, last.quantum_number).spiral

-----------------------------------------------------------------------------
(* The bulk clear while a background task is still running *)

\* some background task has not finished
TaskInFlight == \E job_id \in DOMAIN tasks : tasks[job_id].pc # "done"

\* POST /admin/clear issued while a background task is in flight
ClearInFlight ==
    /\ TaskInFlight
    /\ ClearAllData

NextLate ==
    \/ Register(MaxRequests, Selectable)
    \/ \E job_id \in DOMAIN tasks : BgSubmit(job_id)
    \/ \E job_id \in DOMAIN tasks : Execute(job_id)
    \/ \E job_id \in DOMAIN tasks : BgRaise(job_id)
    \/ ClearInFlight

InitLate == Init

SpecLate == InitLate /\ [][NextLate]_vars

\* C32: after the bulk clear has removed a job, an update that a still
\* running background task issues for that job is a no-op: the step
\* completes (the task moves on), the removed job does not reappear and the
\* contents of the job table are unchanged.
C32_LateUpdateIsNoOp ==
    [][ \A job_id \in DOMAIN tasks :
           (TaskSteps(job_id) /\ job_id \in issued /\ job_id \notin DOMAIN jobs)
           => /\ jobs' = jobs
              /\ job_id \notin DOMAIN jobs'
              /\ tasks'[job_id].pc \in {"sleeping", "done"} ]_vars

\* every task has finished although the jobs were cleared while one of them
\* was still running: that task issued its last update after the clear, and
\* the table is still empty
C32_Witness ==
    /\ DOMAIN tasks # {}
    /\ \A job_id \in DOMAIN tasks :
          /\ tasks[job_id].pc = "done"
          /\ ~tasks[job_id].raised
          /\ job_id \in issued
    /\ \E job_id \in DOMAIN tasks : job_id \notin DOMAIN jobs
    /\ DOMAIN jobs = {}

-----------------------------------------------------------------------------
(* Termination of every job of a request *)

\* the ids the requests of the polling client can give to their jobs, fast
\* track and slow track
LiveAllJobIds == 1..(2 * MaxLiveRequests)

\* C33: every job created by a /register request eventually reaches a
\* terminal status, also when the request returns a failure: unless the bulk
\* clear removes it, no job stays created, submitted or running for ever.
C33_EveryJobEnds ==
    \A id \in LiveAllJobIds :
        (id \in DOMAIN jobs)
            ~> (id \notin DOMAIN jobs \/ jobs[id].status \in Terminal)

-----------------------------------------------------------------------------
(* References from the entries to the jobs *)

\* the job ids an entry refers to
JobRefs(row) ==
    { ref[1] : ref \in { r \in {row.local_job_id, row.device_job_id} : r # NULL } }

\* C34: in every reachable state, every job id that a stored entry refers to
\* (fast track and slow track) is the id of a job in the job table, also when
\* the bulk clear runs between the steps of a request and its background task.
C34_ReferencedJobsStored ==
    \A id \in DOMAIN signatures : JobRefs(signatures[id]) \subseteq DOMAIN jobs

\* an entry refers to two jobs while the background task of its slow-track
\* job is still running
C34_Witness ==
    \E id \in DOMAIN signatures :
        /\ Cardinality(JobRefs(signatures[id])) = 2
        /\ signatures[id].device_job_id[1] \in DOMAIN tasks
        /\ tasks[signatures[id].device_job_id[1]].pc = "sleeping"

-----------------------------------------------------------------------------
(* The columns of a job against its status *)

\* C35: in every state reached through the operations of the orchestrator, a
\* job has a result payload exactly when its status is completed, an error
\* message exactly when its status is failed, and a completed_at timestamp
\* exactly when its status is completed or failed.
C35_ColumnsMatchStatus ==
    \A id \in DOMAIN jobs :
        /\ (jobs[id].result_data # NULL) <=> (jobs[id].status = "completed")
        /\ (jobs[id].error_message # NULL) <=> (jobs[id].status = "failed")
        /\ (jobs[id].completed_at # NULL) <=> (jobs[id].status \in Terminal)

\* the table holds a completed job with its payload next to a failed job
\* with its message
C35_Witness ==
    /\ \E id \in DOMAIN jobs :
          jobs[id].status = "completed" /\ jobs[id].result_data # NULL
    /\ \E id \in DOMAIN jobs :
          jobs[id].status = "failed" /\ jobs[id].error_message # NULL

-----------------------------------------------------------------------------
(* The slow-track value of an entry against its slow-track job *)

\* C36: whenever a stored entry carries a slow-track value, its slow-track
\* job is stored with status completed, and the value of the entry equals the
\* value in the result payload of that job.
C36_DeviceValueFromCompletedJob ==
    \A id \in DOMAIN signatures :
        signatures[id].device_quantum_number # NULL
        => /\ signatures[id].device_job_id # NULL
           /\ signatures[id].device_job_id[1] \in DOMAIN jobs
           /\ jobs[signatures[id].device_job_id[1]].status = "completed"
           /\ jobs[signatures[id].device_job_id[1]].result_data # NULL
           /\ jobs[signatures[id].device_job_id[1]].result_data[1].quantum_number
                 = signatures[id].device_quantum_number[1]

\* a background task has written its value into the entry of its job
C36_Witness ==
    \E id \in DOMAIN signatures :
        /\ signatures[id].device_quantum_number # NULL
        /\ signatures[id].device_job_id # NULL
        /\ signatures[id].device_job_id[1] \in DOMAIN tasks
        /\ tasks[signatures[id].device_job_id[1]].pc = "done"

-----------------------------------------------------------------------------
(* The entry of a background job gets the result of the job *)

\* the entries a request of the polling client can store
LiveSigIds == 1..MaxLiveRequests

\* the entry refers to a slow-track job that is stored as completed
DeviceJobCompleted(id) ==
    /\ id \in DOMAIN signatures
    /\ signatures[id].device_job_id # NULL
    /\ signatures[id].device_job_id[1] \in DOMAIN jobs
    /\ jobs[signatures[id].device_job_id[1]].status = "completed"

\* C37: for a backend that runs in the background the entry is stored before
\* the task looks it up by its slow-track job id, so whenever the job of an
\* entry is completed the entry eventually carries the result of the job,
\* unless the bulk clear removes the entry.
C37_CompletedJobFillsEntry ==
    \A id \in LiveSigIds :
        DeviceJobCompleted(id)
            ~> \/ id \notin DOMAIN signatures
               \/ /\ DeviceJobCompleted(id)
                  /\ signatures[id].device_quantum_number
                        = Some(jobs[signatures[id].device_job_id[1]]
                                   .result_data[1].quantum_number)

-----------------------------------------------------------------------------
(* The lock of the entry table: the requests and tasks of the event loop
   beside a thread that uses the database object of the wall system *)

\* the caller is inside `with self.lock:` of the database object
HoldsEntryLock(caller) == locks[EntryLock] = Some(caller)

EntryLockFrame ==
    UNCHANGED <<jobs, nextJobId, nextSigId, tasks, requests, aws_session,
                aws_devices, _circuit_cache, clock, returned, issued, registry>>

\* `with self.lock:` of a method of the database object: the thread waits
\* until the lock is free and takes it
EntryLockEnter(caller) ==
    /\ locks[EntryLock] = NULL
    /\ locks' = [locks EXCEPT ![EntryLock] = Some(caller)]
    /\ UNCHANGED <<signatures, last>>
    /\ EntryLockFrame

\* get_all_signatures reads and leaves the section
EntryLockGet(caller) ==
    /\ HoldsEntryLock(caller)
    /\ last' = [op |-> "get_all_signatures",
                job_id |-> Cardinality(get_all_signatures(signatures)),
                status |-> ""]
    /\ locks' = [locks EXCEPT ![EntryLock] = NULL]
    /\ UNCHANGED signatures
    /\ EntryLockFrame

\* clear_all_signatures commits and leaves the section
EntryLockClear(caller) ==
    /\ HoldsEntryLock(caller)
    /\ signatures' = clear_all_signatures(signatures)
    /\ last' = [op |-> "clear_all_signatures",
                job_id |-> Cardinality(DOMAIN signatures), status |-> ""]
    /\ locks' = [locks EXCEPT ![EntryLock] = NULL]
    /\ EntryLockFrame

\* A handler of the event loop that calls a method of the database object
\* waits for the lock first: register_signature (add_signature),
\* update_device_results and upgrade_signature_with_device_results
\* (get_all_signatures) and clear_all_data (clear_all_signatures).  The
\* background task goes to the file through a connection of its own and
\* takes no lock.
NextEntryLock ==
    \/ EntryLockEnter("thread")
    \/ EntryLockGet("thread")
    \/ EntryLockClear("thread")
    \/ locks[EntryLock] = NULL /\ Register(MaxRequests, Selectable)
    \/ \E job_id \in DOMAIN tasks : BgSubmit(job_id)
    \/ \E job_id \in DOMAIN tasks : Execute(job_id)
    \/ \E job_id \in DOMAIN tasks : BgRaise(job_id)
    \/ locks[EntryLock] = NULL /\ UpdateDeviceResults
    \/ \E signature_id \in 1..nextSigId :
           locks[EntryLock] = NULL /\ UpgradeSignature(signature_id)
    \/ locks[EntryLock] = NULL /\ ClearAllData

InitEntryLock == Init

SpecEntryLock == InitEntryLock /\ [][NextEntryLock]_vars

\* C38 (as claimed): every write to the entry table is made while holding
\* the one entry-store lock, so that no write lands while another caller is
\* inside the lock: a step that changes the table either finds the lock free
\* and takes and releases it within the step, or is the commit of the caller
\* that holds the lock and releases it.
C38_WritesHoldEntryLock ==
    [][ signatures' # signatures
        => \/ locks[EntryLock] = NULL
           \/ locks'[EntryLock] = NULL ]_vars

-----------------------------------------------------------------------------
(* The result of upgrade_signature_with_device_results *)

\* the dict upgrade_signature_with_device_results returns: the first check
\* that fails decides the error; `raises` is an exception in the parse, the
\* signing or the UPDATE, which the outer handler turns into a failure
UpgradeResult(table, jobtable, signature_id, raises) ==
    LET Refused(error) == [success |-> FALSE, error |-> Some(error)]
    IN  IF signature_id \notin DOMAIN table
        THEN Refused(<<"Signature not found">>)
        ELSE IF table[signature_id].device_job_id = NULL
        THEN Refused(<<"No device job associated with this signature">>)
        ELSE IF get_job(jobtable, table[signature_id].device_job_id[1]) = NULL
        THEN Refused(<<"Device job not found">>)
        ELSE IF get_job(jobtable, table[signature_id].device_job_id[1])[1].status
                    # "completed"
        THEN Refused(<<"Device job is",
                       get_job(jobtable, table[signature_id].device_job_id[1])[1].status,
                       ", not completed">>)
        ELSE IF get_job(jobtable, table[signature_id].device_job_id[1])[1].result_data
                    = NULL
        THEN Refused(<<"Device job has no result data">>)
        ELSE IF raises
        THEN Refused(<<"str(e)">>)
        ELSE [success |-> TRUE, error |-> NULL]

\* POST /admin/upgrade-signature/{signature_id}, with the dict it returns
UpgradeReturns(signature_id, raises) ==
    /\ signatures' = IF raises THEN signatures
                     ELSE upgrade_signature_with_device_results(signatures, jobs,
                                                                signature_id)
    /\ last' = [op |-> "upgrade_signature_with_device_results",
                signature_id |-> signature_id,
                result |-> UpgradeResult(signatures, jobs, signature_id, raises)]
    /\ UNCHANGED <<jobs, nextJobId, nextSigId, tasks, requests>>
    /\ AwsUnchanged
    /\ CacheUnchanged
    /\ IssuedUnchanged
    /\ LocksUnchanged
    /\ RegistryUnchanged

\* the backends requested before an upgrade: one whose slow track runs
\* inline and one whose slow track runs in the background
UpgradeDevices == {"local_simulator", "ionq_forte"}

NextUpgrade ==
    \/ Register(MaxRequests, UpgradeDevices)
    \/ \E job_id \in DOMAIN tasks : BgSubmit(job_id)
    \/ \E job_id \in DOMAIN tasks : Execute(job_id)
    \/ \E job_id \in DOMAIN tasks : BgRaise(job_id)
    \/ UpdateDeviceResults
    \/ \E signature_id \in 1..nextSigId, raises \in BOOLEAN :
           UpgradeReturns(signature_id, raises)
    \/ ClearAllData

InitUpgrade == Init

SpecUpgrade == InitUpgrade /\ [][NextUpgrade]_vars

\* the entry exists and names a slow-track job that is stored as completed
\* with a result payload
UpgradePreconditions(signature_id) ==
    /\ signature_id \in DOMAIN signatures
    /\ signatures[signature_id].device_job_id # NULL
    /\ signatures[signature_id].device_job_id[1] \in DOMAIN jobs
    /\ jobs[signatures[signature_id].device_job_id[1]].status = "completed"
    /\ jobs[signatures[signature_id].device_job_id[1]].result_data # NULL

\* C39: upgrade_signature_with_device_results changes an entry only when the
\* entry exists, names a slow-track job, and that job is stored, completed
\* and has a result payload, and then it changes that entry alone; in every
\* other case it returns a failure with an error and leaves the entries
\* unchanged; it never changes a job.
C39_UpgradeOnlyWhenCompleted ==
    [][ \A signature_id \in 1..nextSigId, raises \in BOOLEAN :
          UpgradeReturns(signature_id, raises)
          => /\ jobs' = jobs
             /\ DOMAIN signatures' = DOMAIN signatures
             /\ \A id \in DOMAIN signatures :
                   signatures'[id] # signatures[id]
                   => /\ id = signature_id
                      /\ UpgradePreconditions(signature_id)
                      /\ last'.result.success
             /\ ~UpgradePreconditions(signature_id)
                   => /\ ~last'.result.success
                      /\ last'.result.error # NULL
                      /\ signatures' = signatures ]_vars

\* an upgrade has been refused for a stored entry whose slow-track job is
\* stored but not completed
C39_Witness ==
    /\ last.op = "upgrade_signature_with_device_results"
    /\ ~last.result.success
    /\ last.signature_id \in DOMAIN signatures
    /\ signatures[last.signature_id].device_job_id # NULL
    /\ signatures[last.signature_id].device_job_id[1] \in DOMAIN jobs
    /\ jobs[signatures[last.signature_id].device_job_id[1]].status
           \in {"running", "failed"}
    /\ signatures[last.signature_id].device_quantum_number = NULL

=============================================================================
